---- MODULE Spec2Model ----
(***************************************************************************)
(* Kite issue-tracking backend: the issue store (issueRepository), the     *)
(* issue service and the HTTP handlers of /issues and /webhooks.           *)
(*                                                                         *)
(* The database is the record db with one field per table.  Every         *)
(* repository method is an operator from a database (and its arguments)    *)
(* to a result record holding the database afterwards, the returned value  *)
(* and the returned error.  Every HTTP handler is an operator built from   *)
(* them, and an action applying it.                                        *)
(***************************************************************************)
EXTENDS Integers, FiniteSets, Sequences, Bags, TLC

(***************************************************************************)
(* Bounds of the model.                                                    *)
(***************************************************************************)
MaxIssues == 2      \* issues (and scopes) ever inserted
MaxTime == 2        \* distinct clock readings
MaxRequests == 4    \* requests handled in one behaviour
NumProcs == 2       \* requests in flight at once

(***************************************************************************)
(* Values.                                                                 *)
(***************************************************************************)
Nil == "<nil>"      \* a nil pointer of an UpdateIssueRequest string field
NilTime == -1       \* a nil *time.Time of an UpdateIssueRequest
NoTime == 0         \* a NULL resolved_at
NoId == 0           \* no issue

IssueStateActive == "ACTIVE"
IssueStateResolved == "RESOLVED"
SeverityMajor == "major"
IssueTypePipeline == "pipeline"

Namespaces == {"team-a", "team-b"}
IssueIds == 1..MaxIssues

LogsLink(url) == [title |-> "Pipeline Run Logs", url |-> url]
DocLink == [title |-> "Docs", url |-> "https://konflux.test/docs"]

VARIABLES
    db,     \* the database: tables issues, scopes, links, related; nextId
    now,    \* the last reading of the clock (time.Now)
    resp,   \* the response to the last request
    served, \* the number of requests received
    procs,  \* the requests in flight, one per connection, and their position
    nc,     \* the NamespaceChecker: its client, and its last check
    ctrl,   \* the operator: the PipelineRuns, its work queue, its last result
    conn    \* the calls the requests in flight wait for, one per connection

vars == <<db, now, resp, served, procs, nc, ctrl, conn>>

(***************************************************************************)
(* Tables.  issues and scopes are functions from the ids of their rows;    *)
(* links is the set of link rows (issueId, title, url); related is the     *)
(* bag of relationship rows <<source, target>>.  Row ids are fresh on      *)
(* every insert (uuid); nextId is the next fresh issue and scope id.       *)
(***************************************************************************)
EmptyDB ==
    [issues |-> <<>>, scopes |-> <<>>, links |-> {}, related |-> EmptyBag,
     nextId |-> 1]

NoIssue ==
    [id |-> NoId, title |-> "", description |-> "", severity |-> "",
     issueType |-> "", state |-> "", detectedAt |-> NoTime,
     resolvedAt |-> NoTime, updatedAt |-> NoTime, namespace |-> "",
     scopeId |-> NoId,
     scope |-> [resourceType |-> "", resourceName |-> "",
                resourceNamespace |-> ""],
     links |-> {}]

LinksOf(S, id) == {[title |-> l.title, url |-> l.url] : l \in {x \in S.links : x.issueId = id}}

LinkRows(id, ls) == {[issueId |-> id, title |-> l.title, url |-> l.url] : l \in ls}

ScopeOf(S, id) == S.scopes[S.issues[id].scopeId]

Min(s) == CHOOSE x \in s : \A y \in s : x <= y

(***************************************************************************)
(* issueRepository                                                         *)
(***************************************************************************)

\* Result of a repository method: database afterwards, returned issue,
\* returned count, returned error ("" is nil).
Result(S, issue, count, err) ==
    [db |-> S, issue |-> issue, count |-> count, err |-> err]

\* FindByID: the row with its Scope preloaded.  Links are not preloaded, so
\* the returned Links slice is empty.  A missing row is (nil, nil).
FindByID(S, id) ==
    IF id \in DOMAIN S.issues
    THEN [id |-> id,
          title |-> S.issues[id].title,
          description |-> S.issues[id].description,
          severity |-> S.issues[id].severity,
          issueType |-> S.issues[id].issueType,
          state |-> S.issues[id].state,
          detectedAt |-> S.issues[id].detectedAt,
          resolvedAt |-> S.issues[id].resolvedAt,
          updatedAt |-> S.issues[id].updatedAt,
          namespace |-> S.issues[id].namespace,
          scopeId |-> S.issues[id].scopeId,
          scope |-> S.scopes[S.issues[id].scopeId],
          links |-> {}]
    ELSE NoIssue

\* The WHERE clause of CheckDuplicate: an active issue of the request's
\* namespace and issue type whose scope has the request's resource type and
\* name and whose resource namespace is the request's namespace.
DuplicateIds(S, req) ==
    {i \in DOMAIN S.issues :
        /\ S.issues[i].namespace = req.namespace
        /\ S.issues[i].issueType = req.issueType
        /\ S.issues[i].state = IssueStateActive
        /\ ScopeOf(S, i).resourceType = req.scope.resourceType
        /\ ScopeOf(S, i).resourceName = req.scope.resourceName
        /\ ScopeOf(S, i).resourceNamespace = req.namespace}

\* CheckDuplicate that never finds a duplicate.
CheckDuplicate_NotFound(S, req) == NoId

\* CheckDuplicate: First() of the matching rows, that is the one with the
\* least primary key; NoId when IsDuplicate is false.
CheckDuplicate(S, req) ==
    IF DuplicateIds(S, req) = {} THEN NoId ELSE Min(DuplicateIds(S, req))

\* The updates map Update prepares from the issue it found and the request:
\* a column is Nil (NilTime) when the map does not assign it.  Both readings
\* of the clock in Update are the reading t.
Updates(existingIssue, req, t) ==
    [updatedAt |-> t,
     title |-> req.title,
     description |-> req.description,
     severity |-> req.severity,
     issueType |-> req.issueType,
     state |-> req.state,
     resolvedAt |->
        IF req.resolvedAt # NilTime THEN req.resolvedAt
        ELSE IF /\ req.state # Nil
                /\ req.state = IssueStateResolved
                /\ existingIssue.state # IssueStateResolved
             THEN t
             ELSE NilTime]

\* Updates that also writes the namespace column, as the zero value.
UpdatedRow_Namespace(row, updates) ==
    [row EXCEPT
        !.updatedAt = updates.updatedAt,
        !.namespace = "",
        !.title = IF updates.title # Nil THEN updates.title ELSE @,
        !.description =
            IF updates.description # Nil THEN updates.description ELSE @,
        !.severity = IF updates.severity # Nil THEN updates.severity ELSE @,
        !.issueType = IF updates.issueType # Nil THEN updates.issueType ELSE @,
        !.state = IF updates.state # Nil THEN updates.state ELSE @,
        !.resolvedAt =
            IF updates.resolvedAt # NilTime THEN updates.resolvedAt ELSE @]

\* Updates that writes every column of the request, the absent ones as
\* zero values.
UpdatedRow_AllColumns(row, updates) ==
    [row EXCEPT
        !.updatedAt = updates.updatedAt,
        !.title = IF updates.title # Nil THEN updates.title ELSE "",
        !.description =
            IF updates.description # Nil THEN updates.description ELSE "",
        !.severity = IF updates.severity # Nil THEN updates.severity ELSE "",
        !.issueType = IF updates.issueType # Nil THEN updates.issueType ELSE "",
        !.state = IF updates.state # Nil THEN updates.state ELSE "",
        !.resolvedAt =
            IF updates.resolvedAt # NilTime THEN updates.resolvedAt ELSE NoTime]

\* tx.Model(&existingIssue).Updates(updates): the row with the assigned
\* columns replaced.
UpdatedRow(row, updates) ==
    [row EXCEPT
        !.updatedAt = updates.updatedAt,
        !.title = IF updates.title # Nil THEN updates.title ELSE @,
        !.description =
            IF updates.description # Nil THEN updates.description ELSE @,
        !.severity = IF updates.severity # Nil THEN updates.severity ELSE @,
        !.issueType = IF updates.issueType # Nil THEN updates.issueType ELSE @,
        !.state = IF updates.state # Nil THEN updates.state ELSE @,
        !.resolvedAt =
            IF updates.resolvedAt # NilTime THEN updates.resolvedAt ELSE @]

\* The link rows when the links are replaced only by a non-empty slice
\* (len(req.Links) > 0 in place of req.Links != nil).
UpdatedLinks_NonEmptyOnly(S, id, req) ==
    IF req.hasLinks /\ req.links # {}
    THEN {l \in S.links : l.issueId # id} \cup LinkRows(id, req.links)
    ELSE S.links

\* The link rows after the transaction of Update: replaced when the request
\* carries a non-nil Links slice, kept otherwise.
UpdatedLinks(S, id, req) ==
    IF req.hasLinks
    THEN {l \in S.links : l.issueId # id} \cup LinkRows(id, req.links)
    ELSE S.links

\* Update
Update(S, id, req, t) ==
    IF FindByID(S, id) = NoIssue
    THEN Result(S, NoIssue, 0, "notfound")
    ELSE LET S2 == [S EXCEPT
                      !.issues = [@ EXCEPT ![id] =
                                    UpdatedRow(@, Updates(FindByID(S, id), req, t))],
                      !.links = UpdatedLinks(S, id, req)]
         IN  Result(S2, FindByID(S2, id), 0, "")

\* DuplicateUpdateRequest without the Description of the request.
DuplicateUpdateRequest_NoDescription(req) ==
    [title |-> req.title,
     description |-> Nil,
     severity |-> req.severity,
     issueType |-> req.issueType,
     state |-> IF req.state # "" THEN req.state ELSE Nil,
     resolvedAt |-> NilTime,
     hasLinks |-> FALSE,
     links |-> {}]

\* The UpdateIssueRequest that Create builds for a duplicate.
DuplicateUpdateRequest(req) ==
    [title |-> req.title,
     description |-> req.description,
     severity |-> req.severity,
     issueType |-> req.issueType,
     state |-> IF req.state # "" THEN req.state ELSE Nil,
     resolvedAt |-> NilTime,
     hasLinks |-> FALSE,
     links |-> {}]

\* The rows Create inserts: the issue, its scope and its links.
InsertIssue(S, req, t) ==
    LET id == S.nextId
    IN  [S EXCEPT
            !.nextId = id + 1,
            !.scopes = @ @@ (id :>
                [resourceType |-> req.scope.resourceType,
                 resourceName |-> req.scope.resourceName,
                 resourceNamespace |->
                     IF req.scope.resourceNamespace = ""
                     THEN req.namespace
                     ELSE req.scope.resourceNamespace]),
            !.issues = @ @@ (id :>
                [title |-> req.title,
                 description |-> req.description,
                 severity |-> req.severity,
                 issueType |-> req.issueType,
                 state |-> IF req.state = "" THEN IssueStateActive
                           ELSE req.state,
                 detectedAt |-> t,
                 resolvedAt |-> NoTime,
                 updatedAt |-> t,
                 namespace |-> req.namespace,
                 scopeId |-> id]),
            !.links = @ \cup LinkRows(id, req.links)]

\* Create: update the duplicate when there is one, insert otherwise.
Create(S, req, t) ==
    IF CheckDuplicate(S, req) # NoId
    THEN Update(S, CheckDuplicate(S, req), DuplicateUpdateRequest(req), t)
    ELSE LET S2 == InsertIssue(S, req, t)
         IN  Result(S2, FindByID(S2, S.nextId), 0, "")

\* ScopeIds without the condition on issues.namespace.
ScopeIds_AnyNamespace(S, resourceType, resourceName, namespace) ==
    {i \in DOMAIN S.issues :
        /\ S.issues[i].state = IssueStateActive
        /\ ScopeOf(S, i).resourceType = resourceType
        /\ ScopeOf(S, i).resourceName = resourceName}

\* ScopeIds without the condition on issues.state.
ScopeIds_AnyState(S, resourceType, resourceName, namespace) ==
    {i \in DOMAIN S.issues :
        /\ S.issues[i].namespace = namespace
        /\ ScopeOf(S, i).resourceType = resourceType
        /\ ScopeOf(S, i).resourceName = resourceName}

\* The ids ResolveByScope plucks: the active issues of the namespace whose
\* scope has the resource type and name.
ScopeIds(S, resourceType, resourceName, namespace) ==
    {i \in DOMAIN S.issues :
        /\ S.issues[i].state = IssueStateActive
        /\ S.issues[i].namespace = namespace
        /\ ScopeOf(S, i).resourceType = resourceType
        /\ ScopeOf(S, i).resourceName = resourceName}

\* ResolveRows with WHERE id = the first of ids.
ResolveRows_FirstOnly(S, ids, t) ==
    [S EXCEPT !.issues =
        [i \in DOMAIN @ |->
            IF i = Min(ids)
            THEN [@[i] EXCEPT !.state = IssueStateResolved,
                              !.resolvedAt = t,
                              !.updatedAt = t]
            ELSE @[i]]]

\* The UPDATE ... WHERE id IN ids of ResolveByScope.
ResolveRows(S, ids, t) ==
    [S EXCEPT !.issues =
        [i \in DOMAIN @ |->
            IF i \in ids
            THEN [@[i] EXCEPT !.state = IssueStateResolved,
                              !.resolvedAt = t,
                              !.updatedAt = t]
            ELSE @[i]]]

\* ResolveByScope.  fail names the statement the database fails at:
\* "query" (the Pluck), "update" (the Updates) or "none".
ResolveByScope(S, resourceType, resourceName, namespace, t, fail) ==
    LET ids == ScopeIds(S, resourceType, resourceName, namespace)
    IN  IF fail = "query" THEN Result(S, NoIssue, 0, "db")
        ELSE IF ids = {} THEN Result(S, NoIssue, 0, "")
        ELSE IF fail = "update" THEN Result(S, NoIssue, 0, "db")
        ELSE Result(ResolveRows(S, ids, t), NoIssue, Cardinality(ids), "")

\* Delete without the statement deleting the links of the issue.
Delete_KeepLinks(S, id) ==
    IF FindByID(S, id) = NoIssue
    THEN Result(S, NoIssue, 0, "notfound")
    ELSE Result(
            [S EXCEPT
                !.related = [e \in {x \in DOMAIN @ : x[1] # id /\ x[2] # id}
                                |-> @[e]],
                !.issues = [i \in DOMAIN @ \ {id} |-> @[i]],
                !.scopes = [k \in DOMAIN @ \ {S.issues[id].scopeId} |-> @[k]]],
            NoIssue, 0, "")

\* Delete whose statement deleting links has no WHERE clause.
Delete_AllLinks(S, id) ==
    IF FindByID(S, id) = NoIssue
    THEN Result(S, NoIssue, 0, "notfound")
    ELSE Result(
            [S EXCEPT
                !.related = [e \in {x \in DOMAIN @ : x[1] # id /\ x[2] # id}
                                |-> @[e]],
                !.links = {},
                !.issues = [i \in DOMAIN @ \ {id} |-> @[i]],
                !.scopes = [k \in DOMAIN @ \ {S.issues[id].scopeId} |-> @[k]]],
            NoIssue, 0, "")

\* The relationship rows with the issue as source or target.
IncidentTo(S, id) == {e \in DOMAIN S.related : e[1] = id \/ e[2] = id}

\* The transaction of Delete without the DELETE of the relationships.
DeleteTransaction_KeepRelations(S, id, scopeId) ==
    [S EXCEPT
        !.links = {l \in @ : l.issueId # id},
        !.issues = [i \in DOMAIN @ \ {id} |-> @[i]],
        !.scopes = [k \in DOMAIN @ \ {scopeId} |-> @[k]]]

\* The transaction of Delete without the DELETE of the issue scope.
DeleteTransaction_KeepScope(S, id, scopeId) ==
    [S EXCEPT
        !.related = [e \in DOMAIN @ \ IncidentTo(S, id) |-> @[e]],
        !.links = {l \in @ : l.issueId # id},
        !.issues = [i \in DOMAIN @ \ {id} |-> @[i]]]

\* The four DELETE statements of the transaction of Delete: relationships,
\* links, the issue, the scope.
DeleteTransaction(S, id, scopeId) ==
    [S EXCEPT
        !.related = [e \in DOMAIN @ \ IncidentTo(S, id) |-> @[e]],
        !.links = {l \in @ : l.issueId # id},
        !.issues = [i \in DOMAIN @ \ {id} |-> @[i]],
        !.scopes = [k \in DOMAIN @ \ {scopeId} |-> @[k]]]

\* Delete: relationships, links, the issue and its scope, in one transaction.
Delete(S, id) ==
    IF FindByID(S, id) = NoIssue
    THEN Result(S, NoIssue, 0, "notfound")
    ELSE Result(DeleteTransaction(S, id, S.issues[id].scopeId),
                NoIssue, 0, "")

\* The relationship rows from the source to the target only.
RelationsBetween_Forward(S, sourceID, targetID) ==
    {e \in DOMAIN S.related : e = <<sourceID, targetID>>}

\* The relationship rows between two issues, in either direction.
RelationsBetween(S, sourceID, targetID) ==
    {e \in DOMAIN S.related :
        e = <<sourceID, targetID>> \/ e = <<targetID, sourceID>>}

\* The INSERT of a relationship row.  RelatedIssue_sourceId_fkey and
\* RelatedIssue_targetId_fkey reject a row whose source or target is not
\* an issue.
InsertRelation(S, sourceID, targetID) ==
    IF sourceID \in DOMAIN S.issues /\ targetID \in DOMAIN S.issues
    THEN Result([S EXCEPT !.related = @ (+) SetToBag({<<sourceID, targetID>>})],
                NoIssue, 0, "")
    ELSE Result(S, NoIssue, 0, "failed to create relationship")

\* AddRelatedIssue
AddRelatedIssue(S, sourceID, targetID) ==
    IF FindByID(S, sourceID) = NoIssue \/ FindByID(S, targetID) = NoIssue
    THEN Result(S, NoIssue, 0, "one or both issues not found")
    ELSE IF RelationsBetween(S, sourceID, targetID) # {}
    THEN Result(S, NoIssue, 0, "relationship already exists")
    ELSE InsertRelation(S, sourceID, targetID)

\* RemoveRelatedIssue deleting the rows from the source to the target only.
RemoveRelatedIssue_Forward(S, sourceID, targetID) ==
    IF <<sourceID, targetID>> \notin DOMAIN S.related
    THEN Result(S, NoIssue, 0, "relationship not found")
    ELSE Result(
            [S EXCEPT !.related =
                [e \in DOMAIN @ \ {<<sourceID, targetID>>} |-> @[e]]],
            NoIssue, 0, "")

\* RemoveRelatedIssue
RemoveRelatedIssue(S, sourceID, targetID) ==
    IF RelationsBetween(S, sourceID, targetID) = {}
    THEN Result(S, NoIssue, 0, "relationship not found")
    ELSE Result(
            [S EXCEPT !.related =
                [e \in DOMAIN @ \ RelationsBetween(S, sourceID, targetID)
                    |-> @[e]]],
            NoIssue, 0, "")

(***************************************************************************)
(* IssueService                                                            *)
(***************************************************************************)

\* CreateIssue
ServiceCreateIssue(S, req, t) == Create(S, req, t)

\* CreateOrUpdateIssue.  The repository's create-or-update flow (duplicate
\* check, then update or insert) is issueRepository.Create.
CreateOrUpdateIssue(S, req, t) == Create(S, req, t)

\* UpdateIssue
ServiceUpdateIssue(S, id, req, t) == Update(S, id, req, t)

\* DeleteIssue
ServiceDeleteIssue(S, id) == Delete(S, id)

\* ResolveIssuesByScope: an error of the repository is returned as (0, nil).
ResolveIssuesByScope(S, resourceType, resourceName, namespace, t, fail) ==
    LET r == ResolveByScope(S, resourceType, resourceName, namespace, t, fail)
    IN  IF r.err # "" THEN Result(r.db, NoIssue, 0, "") ELSE r

(***************************************************************************)
(* HTTP handlers.  A handler returns the database afterwards, the status   *)
(* of the response, the issue and the count of its body, and storeErr, the *)
(* error the repository returned to the service.                           *)
(***************************************************************************)
StatusOK == 200
StatusCreated == 201
StatusNoContent == 204
StatusBadRequest == 400
StatusForbidden == 403
StatusNotFound == 404
StatusConflict == 409
StatusInternalServerError == 500

Http(S, status, issue, count, storeErr) ==
    [db |-> S, status |-> status, issue |-> issue, count |-> count,
     storeErr |-> storeErr]

validSeverities == {"info", "minor", "major", "critical"}
validTypes == {"build", "test", "release", "dependency", "pipeline"}
validStates == {IssueStateActive, IssueStateResolved}

\* validateCreateIssueRequest: TRUE when it returns nil.
validateCreateIssueRequest(req) ==
    /\ req.severity \in validSeverities
    /\ req.issueType \in validTypes
    /\ req.state # "" => req.state \in validStates

\* The binding:"required" tags of CreateIssueRequest and ScopeReqBody.
BindCreateIssueRequest(req) ==
    /\ req.title # ""
    /\ req.description # ""
    /\ req.severity # ""
    /\ req.issueType # ""
    /\ req.namespace # ""
    /\ req.scope.resourceType # ""
    /\ req.scope.resourceName # ""
    /\ \A l \in req.links : l.title # "" /\ l.url # ""

\* FindAll with the namespace filter alone: the rows and their number.
FindAll(S, namespace) ==
    {i \in DOMAIN S.issues :
        namespace # "" => S.issues[i].namespace = namespace}

\* GET /issues
GetIssues(S, namespace) ==
    Http(S, StatusOK, NoIssue, Cardinality(FindAll(S, namespace)), "")

\* GetIssue without the comparison of the namespaces.
GetIssue_NoNamespaceCheck(S, id, namespace) ==
    IF FindByID(S, id) = NoIssue
    THEN Http(S, StatusNotFound, NoIssue, 0, "")
    ELSE Http(S, StatusOK, FindByID(S, id), 0, "")

\* GET /issues/:id
GetIssue(S, id, namespace) ==
    IF FindByID(S, id) = NoIssue
    THEN Http(S, StatusNotFound, NoIssue, 0, "")
    ELSE IF namespace # "" /\ FindByID(S, id).namespace # namespace
    THEN Http(S, StatusForbidden, NoIssue, 0, "")
    ELSE Http(S, StatusOK, FindByID(S, id), 0, "")

\* POST /issues
CreateIssueHandler(S, req, t) ==
    IF ~BindCreateIssueRequest(req)
    THEN Http(S, StatusBadRequest, NoIssue, 0, "")
    ELSE IF ~validateCreateIssueRequest(req)
    THEN Http(S, StatusBadRequest, NoIssue, 0, "")
    ELSE LET r == ServiceCreateIssue(S, req, t)
         IN  IF r.err # ""
             THEN Http(r.db, StatusInternalServerError, NoIssue, 0, r.err)
             ELSE Http(r.db, StatusCreated, r.issue, 0, "")

\* PUT /issues/:id
UpdateIssueHandler(S, id, namespace, req, t) ==
    IF FindByID(S, id) = NoIssue
    THEN Http(S, StatusNotFound, NoIssue, 0, "")
    ELSE IF namespace # "" /\ FindByID(S, id).namespace # namespace
    THEN Http(S, StatusForbidden, NoIssue, 0, "")
    ELSE LET r == ServiceUpdateIssue(S, id, req, t)
         IN  IF r.err # ""
             THEN Http(r.db, StatusInternalServerError, NoIssue, 0, r.err)
             ELSE Http(r.db, StatusOK, r.issue, 0, "")

\* The UpdateIssueRequest of POST /issues/:id/resolve.
ResolveRequest(t) ==
    [title |-> Nil, description |-> Nil, severity |-> Nil, issueType |-> Nil,
     state |-> IssueStateResolved, resolvedAt |-> t,
     hasLinks |-> FALSE, links |-> {}]

\* POST /issues/:id/resolve
ResolveIssueHandler(S, id, namespace, t) ==
    IF FindByID(S, id) = NoIssue
    THEN Http(S, StatusNotFound, NoIssue, 0, "")
    ELSE IF namespace # "" /\ FindByID(S, id).namespace # namespace
    THEN Http(S, StatusForbidden, NoIssue, 0, "")
    ELSE LET r == ServiceUpdateIssue(S, id, ResolveRequest(t), t)
         IN  IF r.err # ""
             THEN Http(r.db, StatusInternalServerError, NoIssue, 0, r.err)
             ELSE Http(r.db, StatusOK, r.issue, 0, "")

\* DELETE /issues/:id
DeleteIssueHandler(S, id, namespace) ==
    IF FindByID(S, id) = NoIssue
    THEN Http(S, StatusNotFound, NoIssue, 0, "")
    ELSE IF namespace # "" /\ FindByID(S, id).namespace # namespace
    THEN Http(S, StatusForbidden, NoIssue, 0, "")
    ELSE LET r == ServiceDeleteIssue(S, id)
         IN  IF r.err # ""
             THEN Http(r.db, StatusInternalServerError, NoIssue, 0, r.err)
             ELSE Http(r.db, StatusNoContent, NoIssue, 0, "")

\* POST /issues/:id/related
AddRelatedIssueHandler(S, id, relatedId) ==
    IF relatedId = NoId
    THEN Http(S, StatusBadRequest, NoIssue, 0, "")
    ELSE LET r == AddRelatedIssue(S, id, relatedId)
         IN  IF r.err = "one or both issues not found"
             THEN Http(r.db, StatusNotFound, NoIssue, 0, r.err)
             ELSE IF r.err = "relationship already exists"
             THEN Http(r.db, StatusConflict, NoIssue, 0, r.err)
             ELSE IF r.err # ""
             THEN Http(r.db, StatusInternalServerError, NoIssue, 0, r.err)
             ELSE Http(r.db, StatusCreated, NoIssue, 0, "")

\* DELETE /issues/:id/related/:relatedId
RemoveRelatedIssueHandler(S, id, relatedId) ==
    LET r == RemoveRelatedIssue(S, id, relatedId)
    IN  IF r.err = "relationship not found"
        THEN Http(r.db, StatusNotFound, NoIssue, 0, r.err)
        ELSE IF r.err # ""
        THEN Http(r.db, StatusInternalServerError, NoIssue, 0, r.err)
        ELSE Http(r.db, StatusNoContent, NoIssue, 0, "")

\* KITE_CLUSTER_URL and KITE_LOGS_ENDPOINT defaults.
DefaultLogsURL(runId) == "https://konflux.dev" \o "/logs/pipelineruns/" \o runId

\* The CreateIssueRequest PipelineFailure builds from its payload.
PipelineIssueData(req) ==
    [title |-> "Pipeline run failed: " \o req.pipelineName,
     description |-> "The pipeline run " \o req.pipelineName
                        \o " failed with reason: " \o req.failureReason,
     severity |-> IF req.severity # "" THEN req.severity ELSE SeverityMajor,
     issueType |-> IssueTypePipeline,
     state |-> "",
     namespace |-> req.namespace,
     scope |-> [resourceType |-> "pipelinerun",
                resourceName |-> req.pipelineName,
                resourceNamespace |-> req.namespace],
     links |-> {LogsLink(IF req.logsUrl # "" THEN req.logsUrl
                         ELSE DefaultLogsURL(req.runId))}]

\* POST /webhooks/pipeline-failure
PipelineFailure(S, req, t) ==
    IF req.pipelineName = "" \/ req.namespace = "" \/ req.failureReason = ""
    THEN Http(S, StatusBadRequest, NoIssue, 0, "")
    ELSE LET r == CreateOrUpdateIssue(S, PipelineIssueData(req), t)
         IN  IF r.err # ""
             THEN Http(r.db, StatusInternalServerError, NoIssue, 0, r.err)
             ELSE Http(r.db, StatusCreated, r.issue, 0, "")

\* POST /webhooks/pipeline-success
PipelineSuccess(S, req, t, fail) ==
    IF req.pipelineName = "" \/ req.namespace = ""
    THEN Http(S, StatusBadRequest, NoIssue, 0, "")
    ELSE LET repo == ResolveByScope(S, "pipelinerun", req.pipelineName,
                                    req.namespace, t, fail)
             r == ResolveIssuesByScope(S, "pipelinerun", req.pipelineName,
                                       req.namespace, t, fail)
         IN  IF r.err # ""
             THEN Http(r.db, StatusInternalServerError, NoIssue, 0, repo.err)
             ELSE Http(r.db, StatusOK, NoIssue, r.count, repo.err)

(***************************************************************************)
(* Requests.                                                               *)
(***************************************************************************)
PipelineNames == {"build-xyz"}

IssueRequest(title, description, severity, issueType, state, namespace,
             resourceType, resourceName, resourceNamespace, links) ==
    [title |-> title, description |-> description, severity |-> severity,
     issueType |-> issueType, state |-> state, namespace |-> namespace,
     scope |-> [resourceType |-> resourceType, resourceName |-> resourceName,
                resourceNamespace |-> resourceNamespace],
     links |-> links]

\* Bodies of POST /issues.
CreateIssueRequests ==
    {IssueRequest("X", "Y", "major", "build", "", "team-a",
                  "component", "frontend", "", {}),
     IssueRequest("X2", "Z", "critical", "build", "", "team-a",
                  "component", "frontend", "team-a", {DocLink}),
     IssueRequest("X", "Y", "major", "build", IssueStateResolved, "team-a",
                  "component", "frontend", "", {}),
     IssueRequest("X", "Y", "major", "build", "", "team-a",
                  "component", "frontend", "team-b", {}),
     IssueRequest("X", "Y", "major", "build", "", "team-a",
                  "pipelinerun", "build-xyz", "", {DocLink}),
     IssueRequest("X", "Y", "major", "build", "", "team-b",
                  "component", "frontend", "", {}),
     IssueRequest("", "Y", "bogus", "build", "", "team-a",
                  "component", "frontend", "", {})}

Patch(title, description, severity, issueType, state, resolvedAt,
      hasLinks, links) ==
    [title |-> title, description |-> description, severity |-> severity,
     issueType |-> issueType, state |-> state, resolvedAt |-> resolvedAt,
     hasLinks |-> hasLinks, links |-> links]

\* Bodies of PUT /issues/:id.
UpdateIssueRequests ==
    {Patch("X2", Nil, Nil, Nil, Nil, NilTime, FALSE, {}),
     Patch(Nil, "Z", "critical", Nil, Nil, NilTime, FALSE, {}),
     Patch(Nil, Nil, Nil, IssueTypePipeline, Nil, NilTime, FALSE, {}),
     Patch(Nil, Nil, Nil, Nil, IssueStateResolved, NilTime, FALSE, {}),
     Patch(Nil, Nil, Nil, Nil, IssueStateActive, NilTime, FALSE, {}),
     Patch(Nil, Nil, Nil, Nil, Nil, 1, FALSE, {}),
     Patch(Nil, Nil, Nil, Nil, Nil, NilTime, TRUE, {}),
     Patch(Nil, Nil, Nil, Nil, Nil, NilTime, TRUE, {DocLink})}

\* Bodies of POST /webhooks/pipeline-failure.
PipelineFailureRequests ==
    {[pipelineName |-> n, namespace |-> ns, severity |-> "",
      failureReason |-> "timeout", runId |-> "run-1", logsUrl |-> ""] :
        n \in PipelineNames, ns \in Namespaces}
    \cup
    {[pipelineName |-> "build-xyz", namespace |-> "team-a",
      severity |-> "critical", failureReason |-> "oom",
      runId |-> "run-2", logsUrl |-> "https://ci.test/logs/run-2"],
     [pipelineName |-> "build-xyz", namespace |-> "team-a",
      severity |-> "", failureReason |-> "",
      runId |-> "", logsUrl |-> ""]}

NoRequest == IssueRequest("", "", "", "", "", "", "", "", "", {})

\* Bodies of POST /webhooks/pipeline-success.
PipelineSuccessRequests ==
    {[pipelineName |-> n, namespace |-> ns] :
        n \in PipelineNames \cup {""}, ns \in Namespaces}

\* The namespace query parameter: absent, or a namespace.
QueryNamespaces == {""} \cup Namespaces

\* The statement at which the database fails during ResolveByScope.
Failures == {"none", "query", "update"}

(***************************************************************************)
(* The server: one request is handled at a time.  The handlers receive the *)
(* requests CheckNamespacessAccess has let through: the namespace of the   *)
(* query is not empty.                                                     *)
(***************************************************************************)
Response(op, h) ==
    [op |-> op, status |-> h.status, id |-> h.issue.id, count |-> h.count,
     storeErr |-> h.storeErr]

NoResponse ==
    [op |-> "", status |-> 0, id |-> NoId, count |-> 0, storeErr |-> ""]

Procs == 1..NumProcs

Idle ==
    [pc |-> "idle", req |-> NoRequest, dup |-> NoId, existing |-> NoIssue,
     id |-> NoId, created |-> FALSE, op |-> "", relatedId |-> NoId,
     seen |-> EmptyBag, ids |-> {}, at |-> 0, count |-> 0,
     locked |-> FALSE, deleted |-> {}, inserted |-> {}]

\* A connection with no request in flight.  route is the route of the
\* request, call the call it waits for ("review" of the Authorizer, "db" of
\* the store), ctx the context that call was given, disconnected TRUE once
\* the client has gone, waited the seconds the call has been pending.
NoCall ==
    [route |-> "", call |-> "", ctx |-> "", disconnected |-> FALSE,
     waited |-> 0, outcome |-> ""]

\* The names of the PipelineRuns the operator is asked to reconcile.
PipelineRunNames == {"build-xyz", "deploy-prod"}

RetryWaitPeriod == 2

\* The result of a Reconcile: the ctrl.Result and the error it returns, and
\* whether the Kite client accepted a report.
ReconcileResult(key, requeueAfter, err, reported) ==
    [key |-> key, requeueAfter |-> requeueAfter, err |-> err,
     reported |-> reported]

\* The operator before any PipelineRun exists.  runs is the phase of each
\* PipelineRun in the cluster, queue the requests of the work queue, delayed
\* the requests waiting to be added again, kite TRUE while the Kite client
\* succeeds, reported the report Kite accepted for each run, failures the
\* runs with a failed report attempt.
NoController ==
    [runs |-> [k \in PipelineRunNames |-> "absent"],
     queue |-> {}, delayed |-> {}, kite |-> TRUE,
     reported |-> [k \in PipelineRunNames |-> "none"],
     failures |-> {},
     result |-> ReconcileResult("", 0, "", FALSE)]

\* The NamespaceChecker before its first check; client is FALSE when
\* NewNamespaceChecker found no cluster configuration (client: nil).
NoCheck(client) ==
    [client |-> client, namespace |-> "", reviewed |-> FALSE, err |-> "",
     allowed |-> FALSE, next |-> FALSE, status |-> 0]

Init ==
    /\ db = EmptyDB
    /\ now = 1
    /\ resp = NoResponse
    /\ served = 0
    /\ procs = [p \in Procs |-> Idle]
    /\ nc = NoCheck(FALSE)
    /\ ctrl = NoController
    /\ conn = [p \in Procs |-> NoCall]

\* The handler result h is applied; t is the reading of the clock.
Apply(op, h, t) ==
    /\ served < MaxRequests
    /\ h.db.nextId <= MaxIssues + 1
    /\ served' = served + 1
    /\ db' = h.db
    /\ now' = t
    /\ resp' = Response(op, h)
    /\ UNCHANGED procs
    /\ UNCHANGED <<nc, ctrl, conn>>

PostIssue ==
    \E req \in CreateIssueRequests, t \in now..MaxTime :
        Apply("POST /issues", CreateIssueHandler(db, req, t), t)

PutIssue ==
    \E id \in IssueIds, ns \in Namespaces, req \in UpdateIssueRequests,
       t \in now..MaxTime :
        Apply("PUT /issues/:id", UpdateIssueHandler(db, id, ns, req, t), t)

PostResolve ==
    \E id \in IssueIds, ns \in Namespaces, t \in now..MaxTime :
        Apply("POST /issues/:id/resolve", ResolveIssueHandler(db, id, ns, t), t)

DeleteIssue ==
    \E id \in IssueIds, ns \in Namespaces :
        Apply("DELETE /issues/:id", DeleteIssueHandler(db, id, ns), now)

PostRelated ==
    \E id \in IssueIds, relatedId \in IssueIds :
        Apply("POST /issues/:id/related",
              AddRelatedIssueHandler(db, id, relatedId), now)

DeleteRelated ==
    \E id \in IssueIds, relatedId \in IssueIds :
        Apply("DELETE /issues/:id/related/:relatedId",
              RemoveRelatedIssueHandler(db, id, relatedId), now)

PostPipelineFailure ==
    \E req \in PipelineFailureRequests, t \in now..MaxTime :
        Apply("POST /webhooks/pipeline-failure", PipelineFailure(db, req, t), t)

PostPipelineSuccess ==
    \E req \in PipelineSuccessRequests, t \in now..MaxTime, fail \in Failures :
        Apply("POST /webhooks/pipeline-success",
              PipelineSuccess(db, req, t, fail), t)

Next ==
    \/ PostIssue
    \/ PutIssue
    \/ PostResolve
    \/ DeleteIssue
    \/ PostRelated
    \/ DeleteRelated
    \/ PostPipelineFailure
    \/ PostPipelineSuccess

Spec == Init /\ [][Next]_vars

(***************************************************************************)
(* The server handling pipeline-failure webhooks in parallel: every        *)
(* statement PipelineFailure sends to the database, through                *)
(* CreateOrUpdateIssue, is one step of the connection p.                   *)
(***************************************************************************)

\* The request is bound and the CreateIssueRequest is built.
Receive(p) ==
    \E req \in PipelineFailureRequests :
        /\ procs[p].pc = "idle"
        /\ served < MaxRequests
        /\ req.pipelineName # "" /\ req.namespace # "" /\ req.failureReason # ""
        /\ served' = served + 1
        /\ procs' = [procs EXCEPT ![p] =
                [Idle EXCEPT !.pc = "CheckDuplicate",
                             !.req = PipelineIssueData(req)]]
        /\ UNCHANGED <<db, now, resp>>
        /\ UNCHANGED <<nc, ctrl, conn>>

\* Create: the query of CheckDuplicate.
StepCheckDuplicate(p) ==
    /\ procs[p].pc = "CheckDuplicate"
    /\ procs' = [procs EXCEPT ![p] =
            [@ EXCEPT !.dup = CheckDuplicate(db, procs[p].req),
                      !.pc = IF CheckDuplicate(db, procs[p].req) # NoId
                             THEN "Update.FindByID"
                             ELSE "Create.Transaction"]]
    /\ UNCHANGED <<db, now, resp, served>>
    /\ UNCHANGED <<nc, ctrl, conn>>

\* Create: the transaction inserting the new issue.
StepInsert(p) ==
    \E t \in now..MaxTime :
        /\ procs[p].pc = "Create.Transaction"
        /\ db.nextId <= MaxIssues
        /\ db' = InsertIssue(db, procs[p].req, t)
        /\ now' = t
        /\ procs' = [procs EXCEPT ![p] =
                [@ EXCEPT !.id = db.nextId, !.created = TRUE,
                          !.pc = "FindByID"]]
        /\ UNCHANGED <<resp, served>>
        /\ UNCHANGED <<nc, ctrl, conn>>

\* Update: the FindByID of the duplicate.
StepUpdateFind(p) ==
    /\ procs[p].pc = "Update.FindByID"
    /\ procs' = [procs EXCEPT ![p] =
            [@ EXCEPT !.existing = FindByID(db, procs[p].dup),
                      !.id = procs[p].dup,
                      !.pc = IF FindByID(db, procs[p].dup) = NoIssue
                             THEN "Respond"
                             ELSE "Update.Transaction"]]
    /\ UNCHANGED <<db, now, resp, served>>
    /\ UNCHANGED <<nc, ctrl, conn>>

\* Update: the transaction; the UPDATE changes the row if it still exists.
StepUpdateTransaction(p) ==
    \E t \in now..MaxTime :
        /\ procs[p].pc = "Update.Transaction"
        /\ db' = IF procs[p].id \in DOMAIN db.issues
                 THEN [db EXCEPT !.issues[procs[p].id] =
                        UpdatedRow(@, Updates(procs[p].existing,
                                DuplicateUpdateRequest(procs[p].req), t))]
                 ELSE db
        /\ now' = t
        /\ procs' = [procs EXCEPT ![p] = [@ EXCEPT !.pc = "FindByID"]]
        /\ UNCHANGED <<resp, served>>
        /\ UNCHANGED <<nc, ctrl, conn>>

\* Create and Update: the FindByID reloading the issue.
StepReload(p) ==
    /\ procs[p].pc = "FindByID"
    /\ procs' = [procs EXCEPT ![p] =
            [@ EXCEPT !.existing = FindByID(db, procs[p].id),
                      !.pc = "Respond"]]
    /\ UNCHANGED <<db, now, resp, served>>
    /\ UNCHANGED <<nc, ctrl, conn>>

\* PipelineFailure writes the response: 201 with the issue, 500 when the
\* service returned an error or no issue.
Respond(p) ==
    /\ procs[p].pc = "Respond"
    /\ resp' = [op |-> "POST /webhooks/pipeline-failure",
                status |-> IF procs[p].existing = NoIssue
                           THEN StatusInternalServerError
                           ELSE StatusCreated,
                id |-> procs[p].existing.id,
                count |-> 0,
                storeErr |-> IF procs[p].existing = NoIssue
                             THEN "notfound" ELSE ""]
    /\ procs' = [procs EXCEPT ![p] = [@ EXCEPT !.pc = "done"]]
    /\ UNCHANGED <<db, now, served>>
    /\ UNCHANGED <<nc, ctrl, conn>>

\* The connection is ready for its next request.
Finish(p) ==
    /\ procs[p].pc = "done"
    /\ procs' = [procs EXCEPT ![p] = Idle]
    /\ UNCHANGED <<db, now, resp, served>>
    /\ UNCHANGED <<nc, ctrl, conn>>

ConcNext ==
    \E p \in Procs :
        \/ Receive(p)
        \/ StepCheckDuplicate(p)
        \/ StepInsert(p)
        \/ StepUpdateFind(p)
        \/ StepUpdateTransaction(p)
        \/ StepReload(p)
        \/ Respond(p)
        \/ Finish(p)

ConcSpec == Init /\ [][ConcNext]_vars

(***************************************************************************)
(* The server handling requests on issues and relationships in parallel:   *)
(* every statement a handler sends to the database is one step of the      *)
(* connection p.  A handler that sends one statement, and POST /issues,    *)
(* are one step.                                                           *)
(***************************************************************************)

\* Bodies of POST /issues of the parallel server.
SeedRequests ==
    {IssueRequest("X", "Y", "major", "build", "", "team-a",
                  "component", "frontend", "", {}),
     IssueRequest("X", "Y", "major", "build", "", "team-a",
                  "pipelinerun", "build-xyz", "", {DocLink})}

\* The response of connection p; the connection is ready for its next
\* request.
Reply(p, op, status, id, storeErr) ==
    /\ resp' = [op |-> op, status |-> status, id |-> id, count |-> 0,
                storeErr |-> storeErr]
    /\ procs' = [procs EXCEPT ![p] = Idle]

\* POST /issues
ConnPostIssue(p) ==
    \E req \in SeedRequests :
        /\ procs[p].pc = "idle"
        /\ served < MaxRequests
        /\ CreateIssueHandler(db, req, now).db.nextId <= MaxIssues + 1
        /\ served' = served + 1
        /\ db' = CreateIssueHandler(db, req, now).db
        /\ Reply(p, "POST /issues", CreateIssueHandler(db, req, now).status,
                 CreateIssueHandler(db, req, now).issue.id, "")
        /\ UNCHANGED now
        /\ UNCHANGED <<nc, ctrl, conn>>

\* DELETE /issues/:id/related/:relatedId: one DELETE statement.
ConnDeleteRelated(p) ==
    \E id \in IssueIds, relatedId \in IssueIds :
        /\ procs[p].pc = "idle"
        /\ served < MaxRequests
        /\ served' = served + 1
        /\ db' = RemoveRelatedIssueHandler(db, id, relatedId).db
        /\ Reply(p, "DELETE /issues/:id/related/:relatedId",
                 RemoveRelatedIssueHandler(db, id, relatedId).status, NoId,
                 RemoveRelatedIssueHandler(db, id, relatedId).storeErr)
        /\ UNCHANGED now
        /\ UNCHANGED <<nc, ctrl, conn>>

\* POST /issues/:id/related is bound.
ReceiveRelated(p) ==
    \E id \in IssueIds, relatedId \in IssueIds :
        /\ procs[p].pc = "idle"
        /\ served < MaxRequests
        /\ served' = served + 1
        /\ procs' = [procs EXCEPT ![p] =
                [Idle EXCEPT !.pc = "AddRelatedIssue.FindSource",
                             !.op = "POST /issues/:id/related",
                             !.id = id, !.relatedId = relatedId]]
        /\ UNCHANGED <<db, now, resp>>
        /\ UNCHANGED <<nc, ctrl, conn>>

\* AddRelatedIssue: FindByID of the source.
StepFindSource(p) ==
    /\ procs[p].pc = "AddRelatedIssue.FindSource"
    /\ procs' = [procs EXCEPT ![p] =
            [@ EXCEPT !.existing = FindByID(db, procs[p].id),
                      !.pc = "AddRelatedIssue.FindTarget"]]
    /\ UNCHANGED <<db, now, resp, served>>
    /\ UNCHANGED <<nc, ctrl, conn>>

\* AddRelatedIssue: FindByID of the target; 404 when source or target is nil.
StepFindTarget(p) ==
    /\ procs[p].pc = "AddRelatedIssue.FindTarget"
    /\ IF procs[p].existing = NoIssue
            \/ FindByID(db, procs[p].relatedId) = NoIssue
       THEN Reply(p, procs[p].op, StatusNotFound, NoId,
                  "one or both issues not found")
       ELSE /\ procs' = [procs EXCEPT ![p] =
                    [@ EXCEPT !.pc = "AddRelatedIssue.First"]]
            /\ UNCHANGED resp
    /\ UNCHANGED <<db, now, served>>
    /\ UNCHANGED <<nc, ctrl, conn>>

\* AddRelatedIssue: the query for an existing relationship; 409 when found.
StepCheckRelation(p) ==
    /\ procs[p].pc = "AddRelatedIssue.First"
    /\ IF RelationsBetween(db, procs[p].id, procs[p].relatedId) # {}
       THEN Reply(p, procs[p].op, StatusConflict, NoId,
                  "relationship already exists")
       ELSE /\ procs' = [procs EXCEPT ![p] =
                    [@ EXCEPT !.pc = "AddRelatedIssue.Create"]]
            /\ UNCHANGED resp
    /\ UNCHANGED <<db, now, served>>
    /\ UNCHANGED <<nc, ctrl, conn>>

\* AddRelatedIssue: the INSERT; 201, or 500 when the database rejects it.
StepInsertRelation(p) ==
    /\ procs[p].pc = "AddRelatedIssue.Create"
    /\ db' = InsertRelation(db, procs[p].id, procs[p].relatedId).db
    /\ IF InsertRelation(db, procs[p].id, procs[p].relatedId).err # ""
       THEN Reply(p, procs[p].op, StatusInternalServerError, NoId,
                  InsertRelation(db, procs[p].id, procs[p].relatedId).err)
       ELSE Reply(p, procs[p].op, StatusCreated, NoId, "")
    /\ UNCHANGED <<now, served>>
    /\ UNCHANGED <<nc, ctrl, conn>>

\* DELETE /issues/:id, PUT /issues/:id and POST /issues/:id/resolve up to
\* the FindIssueByID of the handler: 404 when the issue is nil, 403 when its
\* namespace is not the namespace of the query.
ReceiveById(p) ==
    \E op \in {"DELETE /issues/:id", "PUT /issues/:id",
               "POST /issues/:id/resolve"},
       id \in IssueIds, namespace \in Namespaces :
        /\ procs[p].pc = "idle"
        /\ served < MaxRequests
        /\ served' = served + 1
        /\ IF FindByID(db, id) = NoIssue
           THEN Reply(p, op, StatusNotFound, NoId, "")
           ELSE IF FindByID(db, id).namespace # namespace
           THEN Reply(p, op, StatusForbidden, NoId, "")
           ELSE /\ procs' = [procs EXCEPT ![p] =
                        [Idle EXCEPT !.pc = IF op = "DELETE /issues/:id"
                                            THEN "Delete.FindByID"
                                            ELSE "Update.FindByID",
                                     !.op = op, !.id = id]]
                /\ UNCHANGED resp
        /\ UNCHANGED <<db, now>>
        /\ UNCHANGED <<nc, ctrl, conn>>

\* Delete: FindByID; the error of a nil issue is answered 500.
StepDeleteFind(p) ==
    /\ procs[p].op = "DELETE /issues/:id"
    /\ procs[p].pc = "Delete.FindByID"
    /\ IF FindByID(db, procs[p].id) = NoIssue
       THEN Reply(p, procs[p].op, StatusInternalServerError, NoId, "notfound")
       ELSE /\ procs' = [procs EXCEPT ![p] =
                    [@ EXCEPT !.existing = FindByID(db, procs[p].id),
                              !.pc = "Delete.Transaction"]]
            /\ UNCHANGED resp
    /\ UNCHANGED <<db, now, served>>
    /\ UNCHANGED <<nc, ctrl, conn>>

\* Delete: the DELETE of the relationships, seen by the other connections
\* when the transaction commits.
StepDeleteRelations(p) ==
    /\ procs[p].pc = "Delete.Transaction"
    /\ procs' = [procs EXCEPT ![p] =
            [@ EXCEPT !.seen = [e \in IncidentTo(db, procs[p].id)
                                    |-> db.related[e]],
                      !.pc = "Delete.Commit"]]
    /\ UNCHANGED <<db, now, resp, served>>
    /\ UNCHANGED <<nc, ctrl, conn>>

\* Delete: the other statements and the commit.  A relationship inserted
\* since the first statement makes the DELETE of the issue fail on the
\* foreign key; the transaction is rolled back and the answer is 500.
StepDeleteCommit(p) ==
    /\ procs[p].pc = "Delete.Commit"
    /\ IF \E e \in IncidentTo(db, procs[p].id) :
            \/ e \notin DOMAIN procs[p].seen
            \/ db.related[e] > procs[p].seen[e]
       THEN /\ Reply(p, procs[p].op, StatusInternalServerError, NoId,
                     "failed to delete issue")
            /\ UNCHANGED db
       ELSE /\ db' = DeleteTransaction(db, procs[p].id,
                                       procs[p].existing.scopeId)
            /\ Reply(p, procs[p].op, StatusNoContent, NoId, "")
    /\ UNCHANGED <<now, served>>
    /\ UNCHANGED <<nc, ctrl, conn>>

\* The UpdateIssueRequest of the request of connection p.
RequestOf(p, t) ==
    IF procs[p].op = "POST /issues/:id/resolve"
    THEN ResolveRequest(t)
    ELSE Patch("X2", Nil, Nil, Nil, Nil, NilTime, FALSE, {})

\* Update: FindByID; the error of a nil issue is answered 500.
StepFindForUpdate(p) ==
    /\ procs[p].op # ""
    /\ procs[p].pc = "Update.FindByID"
    /\ IF FindByID(db, procs[p].id) = NoIssue
       THEN Reply(p, procs[p].op, StatusInternalServerError, NoId, "notfound")
       ELSE /\ procs' = [procs EXCEPT ![p] =
                    [@ EXCEPT !.existing = FindByID(db, procs[p].id),
                              !.pc = "Update.Updates"]]
            /\ UNCHANGED resp
    /\ UNCHANGED <<db, now, served>>
    /\ UNCHANGED <<nc, ctrl, conn>>

\* Update: the transaction (the UPDATE changes the row if it still exists)
\* and the FindByID that reloads the issue, answered 200.
StepUpdateById(p) ==
    \E t \in now..MaxTime :
        /\ procs[p].pc = "Update.Updates"
        /\ db' = IF procs[p].id \in DOMAIN db.issues
                 THEN [db EXCEPT !.issues[procs[p].id] =
                        UpdatedRow(@, Updates(procs[p].existing,
                                              RequestOf(p, t), t))]
                 ELSE db
        /\ now' = t
        /\ Reply(p, procs[p].op, StatusOK,
                 FindByID(db, procs[p].id).id, "")
        /\ UNCHANGED served
        /\ UNCHANGED <<nc, ctrl, conn>>

RaceNext ==
    \E p \in Procs :
        \/ ConnPostIssue(p)
        \/ ConnDeleteRelated(p)
        \/ ReceiveRelated(p)
        \/ StepFindSource(p)
        \/ StepFindTarget(p)
        \/ StepCheckRelation(p)
        \/ StepInsertRelation(p)
        \/ ReceiveById(p)
        \/ StepDeleteFind(p)
        \/ StepDeleteRelations(p)
        \/ StepDeleteCommit(p)
        \/ StepFindForUpdate(p)
        \/ StepUpdateById(p)

RaceSpec == Init /\ [][RaceNext]_vars

(***************************************************************************)
(* The router: CheckNamespacessAccess runs before every handler of the     *)
(* groups /issues and /webhooks.                                           *)
(***************************************************************************)

\* The outcomes of the SelfSubjectAccessReview: allowed, not allowed, or
\* the call returns an error.
Reviews == {"allowed", "denied", "error"}

\* The value of the context key "requestBody" when no middleware set it.
NoBody == [set |-> FALSE, namespace |-> ""]

\* checkPodAccess: "" is nil.
checkPodAccess(client, review) ==
    IF ~client THEN ""
    ELSE IF review = "error" THEN "failed to check namespace access"
    ELSE IF review = "denied" THEN "access denied to namespace"
    ELSE ""

\* The namespace CheckNamespacessAccess takes from the route parameter, the
\* query, or the body a middleware stored under "requestBody".
NamespaceOf(param, query, method, requestBody) ==
    IF param # "" THEN param
    ELSE IF query # "" THEN query
    ELSE IF method \in {"POST", "PUT"} /\ requestBody.set
    THEN requestBody.namespace
    ELSE ""

\* The check of a middleware: err is the error of checkPodAccess, next is
\* TRUE when it calls c.Next().
Check(client, namespace, reviewed, err, next, status) ==
    [client |-> client, namespace |-> namespace, reviewed |-> reviewed,
     err |-> err, allowed |-> reviewed /\ err = "", next |-> next,
     status |-> status]

\* CheckNamespacessAccess without the c.Abort() and return of a denial.
CheckNamespacessAccess_NoAbort(client, param, query, method, requestBody, review) ==
    LET namespace == NamespaceOf(param, query, method, requestBody)
    IN  IF namespace = ""
        THEN Check(client, "", FALSE, "", FALSE, StatusBadRequest)
        ELSE IF ~client
        THEN Check(client, namespace, FALSE, "", TRUE, StatusOK)
        ELSE Check(client, namespace, TRUE, checkPodAccess(client, review),
                   TRUE, StatusOK)

\* CheckNamespacessAccess with the test of nc.client placed before the test
\* of the namespace.
CheckNamespacessAccess_ClientFirst(client, param, query, method, requestBody, review) ==
    LET namespace == NamespaceOf(param, query, method, requestBody)
    IN  IF ~client
        THEN Check(client, namespace, FALSE, "", TRUE, StatusOK)
        ELSE IF namespace = ""
        THEN Check(client, "", FALSE, "", FALSE, StatusBadRequest)
        ELSE IF checkPodAccess(client, review) # ""
        THEN Check(client, namespace, TRUE, checkPodAccess(client, review),
                   FALSE, StatusForbidden)
        ELSE Check(client, namespace, TRUE, "", TRUE, StatusOK)

\* CheckNamespacessAccess
CheckNamespacessAccess(client, param, query, method, requestBody, review) ==
    LET namespace == NamespaceOf(param, query, method, requestBody)
    IN  IF namespace = ""
        THEN Check(client, "", FALSE, "", FALSE, StatusBadRequest)
        ELSE IF ~client
        THEN Check(client, namespace, FALSE, "", TRUE, StatusOK)
        ELSE IF checkPodAccess(client, review) # ""
        THEN Check(client, namespace, TRUE, checkPodAccess(client, review),
                   FALSE, StatusForbidden)
        ELSE Check(client, namespace, TRUE, "", TRUE, StatusOK)

\* The routes of /issues and /webhooks have no :namespace parameter and no
\* middleware of the router sets "requestBody".
Middleware(client, query, method, review) ==
    CheckNamespacessAccess(client, "", query, method, NoBody, review)

\* The answer of the router: of the handler h when the middleware calls
\* c.Next(), of the middleware otherwise.
Serve(client, query, method, review, S, h) ==
    IF Middleware(client, query, method, review).next
    THEN h
    ELSE Http(S, Middleware(client, query, method, review).status,
              NoIssue, 0, "")

\* Bodies of the requests to the router.
RoutedCreateIssueRequests ==
    {IssueRequest("X", "Y", "major", "build", "", "team-a",
                  "component", "frontend", "", {DocLink}),
     IssueRequest("X", "Y", "major", "build", "", "team-b",
                  "component", "frontend", "", {})}

RoutedUpdateIssueRequests ==
    {Patch("X2", Nil, Nil, Nil, Nil, NilTime, FALSE, {})}

RoutedPipelineFailureRequests ==
    {w \in PipelineFailureRequests : w.failureReason = "timeout"}

RoutedPipelineSuccessRequests ==
    {w \in PipelineSuccessRequests : w.pipelineName # ""}

AuthInit ==
    /\ db = EmptyDB
    /\ now = 1
    /\ resp = NoResponse
    /\ served = 0
    /\ procs = [p \in Procs |-> Idle]
    /\ nc \in {NoCheck(client) : client \in BOOLEAN}
    /\ ctrl = NoController
    /\ conn = [p \in Procs |-> NoCall]

\* A request to the router; h is the result of its handler, t the reading
\* of the clock, which here stays at the reading of the last request.
Route(op, method, query, h, t) ==
    \E review \in Reviews :
        /\ served < MaxRequests
        /\ h.db.nextId <= MaxIssues + 1
        /\ served' = served + 1
        /\ db' = Serve(nc.client, query, method, review, db, h).db
        /\ now' = t
        /\ resp' = Response(op, Serve(nc.client, query, method, review, db, h))
        /\ nc' = [f \in DOMAIN nc |->
                    Middleware(nc.client, query, method, review)[f]]
        /\ UNCHANGED <<procs, ctrl, conn>>

RouteGetIssues ==
    \E query \in QueryNamespaces :
        Route("GET /issues", "GET", query, GetIssues(db, query), now)

RouteGetIssue ==
    \E query \in QueryNamespaces, id \in IssueIds :
        Route("GET /issues/:id", "GET", query, GetIssue(db, id, query), now)

RoutePostIssue ==
    \E query \in QueryNamespaces, req \in RoutedCreateIssueRequests :
        Route("POST /issues", "POST", query, CreateIssueHandler(db, req, now), now)

RoutePutIssue ==
    \E query \in QueryNamespaces, id \in IssueIds,
       req \in RoutedUpdateIssueRequests :
        Route("PUT /issues/:id", "PUT", query,
              UpdateIssueHandler(db, id, query, req, now), now)

RoutePostResolve ==
    \E query \in QueryNamespaces, id \in IssueIds :
        Route("POST /issues/:id/resolve", "POST", query,
              ResolveIssueHandler(db, id, query, now), now)

RouteDeleteIssue ==
    \E query \in QueryNamespaces, id \in IssueIds :
        Route("DELETE /issues/:id", "DELETE", query,
              DeleteIssueHandler(db, id, query), now)

RoutePostRelated ==
    \E query \in QueryNamespaces, id \in IssueIds, relatedId \in IssueIds :
        Route("POST /issues/:id/related", "POST", query,
              AddRelatedIssueHandler(db, id, relatedId), now)

RouteDeleteRelated ==
    \E query \in QueryNamespaces, id \in IssueIds, relatedId \in IssueIds :
        Route("DELETE /issues/:id/related/:relatedId", "DELETE", query,
              RemoveRelatedIssueHandler(db, id, relatedId), now)

RoutePipelineFailure ==
    \E query \in QueryNamespaces, req \in RoutedPipelineFailureRequests :
        Route("POST /webhooks/pipeline-failure", "POST", query,
              PipelineFailure(db, req, now), now)

RoutePipelineSuccess ==
    \E query \in QueryNamespaces, req \in RoutedPipelineSuccessRequests :
        Route("POST /webhooks/pipeline-success", "POST", query,
              PipelineSuccess(db, req, now, "none"), now)

AuthNext ==
    \/ RouteGetIssues
    \/ RouteGetIssue
    \/ RoutePostIssue
    \/ RoutePutIssue
    \/ RoutePostResolve
    \/ RouteDeleteIssue
    \/ RoutePostRelated
    \/ RouteDeleteRelated
    \/ RoutePipelineFailure
    \/ RoutePipelineSuccess

AuthSpec == AuthInit /\ [][AuthNext]_vars

(***************************************************************************)
(* Vocabulary of the properties.                                           *)
(***************************************************************************)
ResourceTypes == {"pipelinerun", "component"}
ResourceNames == {"build-xyz", "frontend"}

\* The deduplication key of a stored issue: namespace, issue type and scope.
KeyOf(S, i) == <<S.issues[i].namespace, S.issues[i].issueType, ScopeOf(S, i)>>

ActiveIssues(S) == {i \in DOMAIN S.issues : S.issues[i].state = IssueStateActive}

\* The issues that are active with the namespace, resource type and name.
ActiveInScope(S, resourceType, resourceName, namespace) ==
    {i \in ActiveIssues(S) :
        /\ S.issues[i].namespace = namespace
        /\ ScopeOf(S, i).resourceType = resourceType
        /\ ScopeOf(S, i).resourceName = resourceName}

\* The requests that pass binding and validation.
ValidCreateIssueRequests ==
    {x \in CreateIssueRequests :
        BindCreateIssueRequest(x) /\ validateCreateIssueRequest(x)}

ValidPipelineFailureRequests ==
    {w \in PipelineFailureRequests :
        w.pipelineName # "" /\ w.namespace # "" /\ w.failureReason # ""}

\* The key a candidate is stored under.
CandidateKey(x) ==
    <<x.namespace, x.issueType,
      [resourceType |-> x.scope.resourceType,
       resourceName |-> x.scope.resourceName,
       resourceNamespace |-> IF x.scope.resourceNamespace = ""
                             THEN x.namespace
                             ELSE x.scope.resourceNamespace]>>

(***************************************************************************)
(* C1.  After any sequence of store operations executed one at a time, for *)
(* every namespace, issue type and scope at most one active issue exists.  *)
(***************************************************************************)
C1_AtMostOneActivePerKey ==
    \A i, j \in ActiveIssues(db) : KeyOf(db, i) = KeyOf(db, j) => i = j

(***************************************************************************)
(* C2.  When two create-or-update requests for the same namespace, issue   *)
(* type and scope run concurrently, under every interleaving of their      *)
(* store steps at most one of them inserts a new issue, so the store never *)
(* ends with two active issues for that key.                               *)
(***************************************************************************)
C2_AtMostOneInsert ==
    \A p, q \in Procs :
        (/\ p # q
         /\ procs[p].pc = "done"
         /\ procs[q].pc = "done"
         /\ CandidateKey(procs[p].req) = CandidateKey(procs[q].req))
        => /\ ~(procs[p].created /\ procs[q].created)
           /\ Cardinality({i \in ActiveIssues(db) :
                    KeyOf(db, i) = CandidateKey(procs[p].req)}) <= 1

(***************************************************************************)
(* C3.  For every valid candidate x, create_or_update(x) applied twice in  *)
(* succession returns the same issue id both times, leaves exactly one     *)
(* active issue for x's key, and leaves the issue's fields and links after *)
(* the second call as they were after the first.                           *)
(***************************************************************************)
C3_CreateOrUpdateTwice ==
    \A x \in ValidCreateIssueRequests, t \in now..MaxTime :
        LET r1 == CreateOrUpdateIssue(db, x, t)
            r2 == CreateOrUpdateIssue(r1.db, x, t)
        IN  /\ r1.err = "" /\ r2.err = ""
            /\ r2.issue.id = r1.issue.id
            /\ Cardinality({i \in DOMAIN r2.db.issues :
                                KeyOf(r2.db, i) = CandidateKey(x)}) = 1
            /\ r2.issue = r1.issue
            /\ LinksOf(r2.db, r2.issue.id) = LinksOf(r1.db, r1.issue.id)

(***************************************************************************)
(* C4.  When create_or_update receives a candidate that duplicates an      *)
(* existing active issue, that issue's title, description, severity and    *)
(* issue type become the candidate's and its links become exactly the      *)
(* candidate's links.                                                      *)
(***************************************************************************)
C4_DuplicateTakesCandidate ==
    \A x \in ValidCreateIssueRequests, t \in now..MaxTime :
        \A d \in ActiveIssues(db) :
            (KeyOf(db, d) = CandidateKey(x)
                /\ \A e \in ActiveIssues(db) : KeyOf(db, e) = KeyOf(db, d) => e = d)
            => LET r == CreateOrUpdateIssue(db, x, t)
               IN  /\ r.db.issues[d].title = x.title
                   /\ r.db.issues[d].description = x.description
                   /\ r.db.issues[d].severity = x.severity
                   /\ r.db.issues[d].issueType = x.issueType
                   /\ LinksOf(r.db, d) = x.links

(***************************************************************************)
(* C6.  After any sequence of create, create_or_update, update, resolve-   *)
(* one and resolve_by_scope operations, every issue is resolved if and     *)
(* only if its resolvedAt is set.                                          *)
(***************************************************************************)
C6_ResolvedIffResolvedAt ==
    \A i \in DOMAIN db.issues :
        db.issues[i].state = IssueStateResolved
            <=> db.issues[i].resolvedAt # NoTime

C7_ResolveByScopeResolvesAll ==
    \A rt \in ResourceTypes, rn \in ResourceNames, ns \in Namespaces,
       t \in now..MaxTime :
        LET r == ResolveByScope(db, rt, rn, ns, t, "none")
        IN  /\ r.err = ""
            /\ \A i \in ActiveInScope(db, rt, rn, ns) :
                    /\ i \in DOMAIN r.db.issues
                    /\ r.db.issues[i].state = IssueStateResolved
            /\ r.count = Cardinality(
                    {i \in ActiveIssues(db) :
                        /\ i \in DOMAIN r.db.issues
                        /\ r.db.issues[i].state = IssueStateResolved})

\* A success webhook has resolved two issues of one scope.
C7_Witness ==
    /\ resp.op = "POST /webhooks/pipeline-success"
    /\ resp.status = StatusOK
    /\ resp.count = 2
    /\ Cardinality({i \in DOMAIN db.issues :
            /\ db.issues[i].state = IssueStateResolved
            /\ db.issues[i].resolvedAt = now
            /\ ScopeOf(db, i).resourceType = "pipelinerun"}) = 2

(***************************************************************************)
(* C8.  resolve_by_scope deletes no issue, scope, link or relationship and *)
(* changes no field of an issue that was not active with the given         *)
(* namespace, resource type and resource name; an issue that is already    *)
(* resolved keeps its resolvedAt.                                          *)
(***************************************************************************)
C8_ResolveByScopeFrame ==
    \A rt \in ResourceTypes, rn \in ResourceNames, ns \in Namespaces,
       t \in now..MaxTime, fail \in Failures :
        LET r == ResolveByScope(db, rt, rn, ns, t, fail)
        IN  /\ DOMAIN r.db.issues = DOMAIN db.issues
            /\ r.db.scopes = db.scopes
            /\ r.db.links = db.links
            /\ r.db.related = db.related
            /\ \A i \in DOMAIN db.issues \ ActiveInScope(db, rt, rn, ns) :
                    r.db.issues[i] = db.issues[i]

\* A success webhook has resolved an issue while an issue of the same scope
\* resolved earlier, an issue of another scope and a relationship exist.
C8_Witness ==
    /\ resp.op = "POST /webhooks/pipeline-success"
    /\ resp.status = StatusOK
    /\ resp.count = 1
    /\ \E i, j \in DOMAIN db.issues :
        /\ db.issues[i].state = IssueStateResolved
        /\ db.issues[j].state = IssueStateResolved
        /\ db.issues[i].namespace = db.issues[j].namespace
        /\ ScopeOf(db, i) = ScopeOf(db, j)
        /\ db.issues[i].resolvedAt = 1
        /\ db.issues[j].resolvedAt = 2

(***************************************************************************)
(* C9.  resolve_by_scope is idempotent: called twice in succession with    *)
(* the same arguments, the second call returns 0 and changes nothing in    *)
(* the store.                                                              *)
(***************************************************************************)
C9_ResolveByScopeIdempotent ==
    \A rt \in ResourceTypes, rn \in ResourceNames, ns \in Namespaces,
       t1 \in now..MaxTime :
        \A t2 \in t1..MaxTime, fail \in Failures :
            LET r1 == ResolveByScope(db, rt, rn, ns, t1, "none")
                r2 == ResolveByScope(r1.db, rt, rn, ns, t2, fail)
            IN  r2.count = 0 /\ r2.db = r1.db

\* A success webhook has resolved the issues of a scope; the same webhook
\* sent again finds none.
C9_Witness ==
    /\ resp.op = "POST /webhooks/pipeline-success"
    /\ resp.status = StatusOK
    /\ resp.count >= 1
    /\ resp.storeErr = ""
    /\ \E ns \in Namespaces :
        /\ \E i \in DOMAIN db.issues :
            /\ db.issues[i].namespace = ns
            /\ db.issues[i].resolvedAt = now
            /\ ScopeOf(db, i).resourceName = "build-xyz"
        /\ PipelineSuccess(db, [pipelineName |-> "build-xyz", namespace |-> ns],
                           now, "none").count = 0

(***************************************************************************)
(* C10.  If the store fails while resolving issues by scope, POST          *)
(* /webhooks/pipeline-success responds with a 5xx status; it responds 200  *)
(* only when the store operation succeeded, with the count the store       *)
(* returned.                                                               *)
(***************************************************************************)
C10_StoreFailureIs5xx ==
    resp.op = "POST /webhooks/pipeline-success"
        => /\ resp.storeErr # "" => resp.status >= 500
           /\ resp.status = StatusOK => resp.storeErr = ""

(***************************************************************************)
(* C11.  After a successful delete(i) the store contains no issue i, no    *)
(* link owned by i, no relationship with i as source or target, and no     *)
(* scope row that belonged to i.                                           *)
(***************************************************************************)
C11_DeleteRemovesAll ==
    \A i \in IssueIds :
        LET r == Delete(db, i)
        IN  r.err = ""
            => /\ i \in DOMAIN db.issues
               /\ i \notin DOMAIN r.db.issues
               /\ LinksOf(r.db, i) = {}
               /\ IncidentTo(r.db, i) = {}
               /\ db.issues[i].scopeId \notin DOMAIN r.db.scopes
               /\ \A j \in DOMAIN r.db.issues :
                    r.db.issues[j].scopeId # db.issues[i].scopeId

\* An issue with a link and a relationship is deleted, and the DELETE of it
\* is answered 204.
C11_Witness ==
    \E i \in DOMAIN db.issues :
        /\ LinksOf(db, i) # {}
        /\ IncidentTo(db, i) # {}
        /\ Delete(db, i).err = ""
        /\ DeleteIssueHandler(db, i, db.issues[i].namespace).status
                = StatusNoContent

(***************************************************************************)
(* C12.  delete(i) leaves every other issue, together with its scope, its  *)
(* links and the relationships not incident to i, unchanged.               *)
(***************************************************************************)
C12_DeleteFrame ==
    \A i \in IssueIds :
        LET r == Delete(db, i)
        IN  /\ r.err # "" => r.db = db
            /\ \A j \in DOMAIN db.issues \ {i} :
                /\ j \in DOMAIN r.db.issues
                /\ r.db.issues[j] = db.issues[j]
                /\ db.issues[j].scopeId \in DOMAIN r.db.scopes
                /\ ScopeOf(r.db, j) = ScopeOf(db, j)
                /\ LinksOf(r.db, j) = LinksOf(db, j)
            /\ \A e \in DOMAIN db.related \ IncidentTo(db, i) :
                /\ e \in DOMAIN r.db.related
                /\ r.db.related[e] = db.related[e]

\* An issue related to another issue that has a link is deleted.
C12_Witness ==
    \E i, j \in DOMAIN db.issues :
        /\ i # j
        /\ LinksOf(db, j) # {}
        /\ RelationsBetween(db, i, j) # {}
        /\ Delete(db, i).err = ""
        /\ j \in DOMAIN Delete(db, i).db.issues

(***************************************************************************)
(* C16.  If a relationship between issues A and B already exists in either *)
(* direction, add_relationship(A,B) and add_relationship(B,A) both fail    *)
(* with Conflict (HTTP 409) and the set of relationships is unchanged.     *)
(***************************************************************************)
C16_ExistingRelationIsConflict ==
    \A a, b \in IssueIds :
        RelationsBetween(db, a, b) # {}
        => /\ AddRelatedIssue(db, a, b).err = "relationship already exists"
           /\ AddRelatedIssue(db, b, a).err = "relationship already exists"
           /\ AddRelatedIssueHandler(db, a, b).status = StatusConflict
           /\ AddRelatedIssueHandler(db, b, a).status = StatusConflict
           /\ AddRelatedIssueHandler(db, a, b).db = db
           /\ AddRelatedIssueHandler(db, b, a).db = db

\* A relationship is stored from one issue to another and the request to
\* relate them in the other direction has been answered 409.
C16_Witness ==
    /\ resp.op = "POST /issues/:id/related"
    /\ resp.status = StatusConflict
    /\ \E a, b \in DOMAIN db.issues :
        /\ a # b
        /\ <<a, b>> \in DOMAIN db.related
        /\ <<b, a>> \notin DOMAIN db.related
        /\ AddRelatedIssueHandler(db, b, a).status = StatusConflict

(***************************************************************************)
(* C17.  A request to relate an issue to itself (source id equal to target *)
(* id) fails with InvalidInput (HTTP 400) and inserts no edge, so no       *)
(* stored relationship ever has equal source and target.                   *)
(***************************************************************************)
C17_NoSelfRelation ==
    /\ \A e \in DOMAIN db.related : e[1] # e[2]
    /\ \A a \in DOMAIN db.issues :
        /\ AddRelatedIssueHandler(db, a, a).status = StatusBadRequest
        /\ AddRelatedIssueHandler(db, a, a).db = db

(***************************************************************************)
(* C18.  remove_relationship(A,B) removes the edge between A and B         *)
(* regardless of the direction in which it was stored, and when no edge    *)
(* between A and B exists it fails with NotFound (HTTP 404) and changes    *)
(* nothing.                                                                *)
(***************************************************************************)
C18_RemoveEitherDirection ==
    \A a, b \in IssueIds :
        LET h == RemoveRelatedIssueHandler(db, a, b)
        IN  IF RelationsBetween(db, a, b) = {}
            THEN /\ h.status = StatusNotFound
                 /\ h.db = db
            ELSE /\ h.status = StatusNoContent
                 /\ RelationsBetween(h.db, a, b) = {}
                 /\ \A e \in DOMAIN db.related \ RelationsBetween(db, a, b) :
                        /\ e \in DOMAIN h.db.related
                        /\ h.db.related[e] = db.related[e]
                 /\ [h.db EXCEPT !.related = db.related] = db

\* A relationship stored from b to a is removed by the request naming a
\* first, and that request has been answered 204 once already.
C18_Witness ==
    /\ resp.op = "POST /issues/:id/related"
    /\ resp.status = StatusCreated
    /\ \E a, b \in DOMAIN db.issues :
        /\ a # b
        /\ <<b, a>> \in DOMAIN db.related
        /\ <<a, b>> \notin DOMAIN db.related
        /\ RemoveRelatedIssueHandler(db, a, b).status = StatusNoContent
        /\ RemoveRelatedIssueHandler(db, a, b).db.related = EmptyBag

(***************************************************************************)
(* C13.  An update, delete or resolve request addressed to an id for which *)
(* no issue exists when the store operation runs is answered with 404 Not  *)
(* Found (never 500), under any interleaving with other requests.          *)
(***************************************************************************)
C13_MissingIssueIsNotFound ==
    (/\ resp.op \in {"PUT /issues/:id", "DELETE /issues/:id",
                     "POST /issues/:id/resolve"}
     /\ resp.storeErr = "notfound")
    => resp.status = StatusNotFound

(***************************************************************************)
(* C14.  In every reachable store state, under any interleaving of relate, *)
(* unrelate and delete requests, both endpoints of every stored            *)
(* relationship are existing issues.                                       *)
(***************************************************************************)
C14_RelationEndpointsExist ==
    \A e \in DOMAIN db.related :
        e[1] \in DOMAIN db.issues /\ e[2] \in DOMAIN db.issues

\* A relate request is answered 500: its INSERT was rejected because an
\* issue it had found was deleted meanwhile.
C14_Witness ==
    /\ resp.op = "POST /issues/:id/related"
    /\ resp.status = StatusInternalServerError
    /\ resp.storeErr = "failed to create relationship"
    /\ DOMAIN db.issues # {}

(***************************************************************************)
(* C15.  When relate(A,B) and relate(B,A) (or two relate(A,B)) requests    *)
(* run concurrently, under every interleaving at most one edge between A   *)
(* and B is stored afterwards.                                             *)
(***************************************************************************)
C15_AtMostOneEdge ==
    \A a, b \in IssueIds :
        a # b
        => /\ Cardinality(RelationsBetween(db, a, b)) <= 1
           /\ \A e \in RelationsBetween(db, a, b) : db.related[e] = 1

(***************************************************************************)
(* C19.  GET /issues/{id} never returns an issue whose namespace differs   *)
(* from the namespace of the request: every request naming an issue of     *)
(* another namespace is answered 403.                                      *)
(***************************************************************************)
C19_GetIssueOfOtherNamespace ==
    \A id \in IssueIds, query \in QueryNamespaces, review \in Reviews :
        LET r == Serve(nc.client, query, "GET", review, db,
                       GetIssue(db, id, query))
        IN  /\ (/\ id \in DOMAIN db.issues
                /\ query # ""
                /\ db.issues[id].namespace # query)
               => r.status = StatusForbidden /\ r.issue = NoIssue
            /\ r.status = StatusOK
               => r.issue.id = id /\ r.issue.namespace = query
            /\ r.issue # NoIssue => r.status = StatusOK

\* A GET naming another namespace than the issue's has reached the handler
\* and is answered 403; a GET naming the issue's namespace is answered 200.
C19_Witness ==
    /\ resp.op = "GET /issues/:id"
    /\ resp.status = StatusForbidden
    /\ nc.next
    /\ \E id \in DOMAIN db.issues :
        /\ db.issues[id].namespace # nc.namespace
        /\ GetIssue(db, id, nc.namespace).status = StatusForbidden
        /\ GetIssue(db, id, db.issues[id].namespace).status = StatusOK

\* The results of the handlers of a request with the namespace in its query.
HandlerResults(S, query) ==
    {GetIssues(S, query)}
    \cup {GetIssue(S, id, query) : id \in IssueIds}
    \cup {CreateIssueHandler(S, req, now) : req \in RoutedCreateIssueRequests}
    \cup {UpdateIssueHandler(S, id, query, req, now) :
            id \in IssueIds, req \in RoutedUpdateIssueRequests}
    \cup {ResolveIssueHandler(S, id, query, now) : id \in IssueIds}
    \cup {DeleteIssueHandler(S, id, query) : id \in IssueIds}
    \cup {AddRelatedIssueHandler(S, ids[1], ids[2]) :
            ids \in IssueIds \X IssueIds}
    \cup {RemoveRelatedIssueHandler(S, ids[1], ids[2]) :
            ids \in IssueIds \X IssueIds}
    \cup {PipelineFailure(S, req, now) : req \in RoutedPipelineFailureRequests}
    \cup {PipelineSuccess(S, req, now, "none") :
            req \in RoutedPipelineSuccessRequests}

(***************************************************************************)
(* C20.  When the NamespaceChecker has a cluster client, a request to an   *)
(* /issues or /webhooks endpoint reaches its handler only after an access  *)
(* review for the namespace of the request returned allowed; a denied      *)
(* request is answered 403 and leaves the store as it was.                 *)
(***************************************************************************)
C20_HandlerOnlyAfterAllowedReview ==
    /\ (nc.client /\ nc.next)
        => nc.reviewed /\ nc.allowed /\ nc.namespace # ""
    /\ (nc.client /\ nc.reviewed /\ ~nc.allowed)
        => ~nc.next /\ resp.status = StatusForbidden /\ resp.id = NoId
    /\ \A query \in Namespaces :
        /\ Middleware(TRUE, query, "POST", "allowed").next
        /\ Middleware(TRUE, query, "POST", "allowed").namespace = query
        /\ \A h \in HandlerResults(db, query) :
            LET r == Serve(TRUE, query, "POST", "denied", db, h)
            IN  r.status = StatusForbidden /\ r.db = db /\ r.issue = NoIssue

\* With a cluster client, a request is denied and answered 403 although
\* its handler would have changed the store, after a request that was
\* allowed has created an issue.
C20_Witness ==
    /\ nc.client
    /\ nc.reviewed
    /\ ~nc.allowed
    /\ resp.status = StatusForbidden
    /\ resp.op = "DELETE /issues/:id"
    /\ \E id \in DOMAIN db.issues :
        /\ db.issues[id].namespace = nc.namespace
        /\ DeleteIssueHandler(db, id, nc.namespace).status = StatusNoContent

(***************************************************************************)
(* C21: when the access review itself fails with a network or API error    *)
(* (checkPodAccess returns "failed to check namespace access"), the        *)
(* request is answered with a 5xx status, not 403.                         *)
(***************************************************************************)
C21_ReviewErrorIs5xx ==
    (nc.reviewed /\ nc.err = "failed to check namespace access")
        => resp.status >= StatusInternalServerError

(***************************************************************************)
(* C22: a POST to /issues or to the pipeline-failure webhook that carries  *)
(* its namespace only in the JSON body (no query parameter) is checked     *)
(* against the namespace of the body and, when the review allows it, is    *)
(* answered by its handler.                                                *)
(***************************************************************************)
C22_BodyNamespaceAuthorized ==
    /\ \A req \in RoutedCreateIssueRequests :
        /\ Middleware(TRUE, "", "POST", "allowed").namespace = req.namespace
        /\ Serve(TRUE, "", "POST", "allowed", db,
                 CreateIssueHandler(db, req, now))
            = CreateIssueHandler(db, req, now)
    /\ \A req \in RoutedPipelineFailureRequests :
        /\ Middleware(TRUE, "", "POST", "allowed").namespace = req.namespace
        /\ Serve(TRUE, "", "POST", "allowed", db,
                 PipelineFailure(db, req, now))
            = PipelineFailure(db, req, now)

C24_UpdateChangesSuppliedFieldsOnly ==
    \A id \in DOMAIN db.issues, req \in UpdateIssueRequests,
       t \in now..MaxTime :
        LET r == Update(db, id, req, t)
            h == UpdateIssueHandler(db, id, db.issues[id].namespace, req, t)
            old == db.issues[id]
            new == r.db.issues[id]
            transition == /\ req.state = IssueStateResolved
                          /\ old.state # IssueStateResolved
        IN  /\ r.err = ""
            /\ h.status = StatusOK
            /\ h.db = r.db
            /\ DOMAIN r.db.issues = DOMAIN db.issues
            /\ new.updatedAt = t
            /\ req.title = Nil => new.title = old.title
            /\ req.description = Nil => new.description = old.description
            /\ req.severity = Nil => new.severity = old.severity
            /\ req.issueType = Nil => new.issueType = old.issueType
            /\ req.state = Nil => new.state = old.state
            /\ (req.resolvedAt = NilTime /\ ~transition)
                    => new.resolvedAt = old.resolvedAt
            /\ (req.resolvedAt = NilTime /\ transition)
                    => new.resolvedAt = t
            /\ ~req.hasLinks => LinksOf(r.db, id) = LinksOf(db, id)
            /\ new.detectedAt = old.detectedAt
            /\ new.namespace = old.namespace
            /\ new.scopeId = old.scopeId
            /\ r.db.scopes = db.scopes
            /\ r.db.related = db.related
            /\ r.db.nextId = db.nextId
            /\ \A j \in DOMAIN db.issues \ {id} :
                    /\ r.db.issues[j] = db.issues[j]
                    /\ LinksOf(r.db, j) = LinksOf(db, j)

\* A PUT that supplied the title only has been answered 200 for an issue
\* that keeps its description, its link and its relationship.
C24_Witness ==
    /\ resp.op = "PUT /issues/:id"
    /\ resp.status = StatusOK
    /\ resp.id \in DOMAIN db.issues
    /\ db.issues[resp.id].title = "X2"
    /\ db.issues[resp.id].description = "Y"
    /\ db.issues[resp.id].updatedAt > db.issues[resp.id].detectedAt
    /\ LinksOf(db, resp.id) # {}
    /\ \E e \in DOMAIN db.related : resp.id \in {e[1], e[2]}

(***************************************************************************)
(* C25: an update whose patch carries links = [] leaves the issue with no  *)
(* links, one that carries links leaves exactly those, and one that omits  *)
(* links leaves the links of the issue as they were.                       *)
(***************************************************************************)
C25_UpdateLinksReplacedOrKept ==
    \A id \in DOMAIN db.issues, req \in UpdateIssueRequests,
       t \in now..MaxTime :
        LET h == UpdateIssueHandler(db, id, db.issues[id].namespace, req, t)
        IN  /\ h.status = StatusOK
            /\ (req.hasLinks /\ req.links = {}) => LinksOf(h.db, id) = {}
            /\ req.hasLinks => LinksOf(h.db, id) = req.links
            /\ ~req.hasLinks => LinksOf(h.db, id) = LinksOf(db, id)

\* A PUT has been answered 200 for an issue that was created with a link
\* and has none now, while another issue still has its link.
C25_Witness ==
    /\ resp.op = "PUT /issues/:id"
    /\ resp.status = StatusOK
    /\ resp.id \in DOMAIN db.issues
    /\ ScopeOf(db, resp.id).resourceType = "pipelinerun"
    /\ LinksOf(db, resp.id) = {}
    /\ \E j \in DOMAIN db.issues \ {resp.id} : LinksOf(db, j) # {}

(***************************************************************************)
(* C26: no operation changes the namespace of an existing issue: an issue  *)
(* that is in the store before and after a step has the same namespace.    *)
(***************************************************************************)
C26_NamespaceConstant ==
    [][\A id \in DOMAIN db.issues \cap DOMAIN db'.issues :
            db'.issues[id].namespace = db.issues[id].namespace]_vars

\* An issue of team-b has been updated by a PUT, after another issue was
\* deleted.
C26_Witness ==
    /\ db.nextId > Cardinality(DOMAIN db.issues) + 1
    /\ resp.op = "PUT /issues/:id"
    /\ resp.status = StatusOK
    /\ resp.id \in DOMAIN db.issues
    /\ db.issues[resp.id].namespace = "team-b"
    /\ db.issues[resp.id].title = "X2"
    /\ db.issues[resp.id].updatedAt > db.issues[resp.id].detectedAt

(***************************************************************************)
(* C27: in every reachable store every issue references an existing scope  *)
(* and every scope is referenced by exactly one issue: no scope is shared  *)
(* and none is left without its issue, also after deletes.                 *)
(***************************************************************************)
C27_IssueScopeOneToOne ==
    /\ \A i \in DOMAIN db.issues : db.issues[i].scopeId \in DOMAIN db.scopes
    /\ \A k \in DOMAIN db.scopes :
            Cardinality({i \in DOMAIN db.issues :
                            db.issues[i].scopeId = k}) = 1

\* A DELETE has removed an issue and its scope while another issue
\* keeps its own scope.
C27_Witness ==
    /\ resp.op = "DELETE /issues/:id"
    /\ resp.status = StatusNoContent
    /\ db.nextId > 2
    /\ Cardinality(DOMAIN db.issues) = db.nextId - 2
    /\ Cardinality(DOMAIN db.scopes) = db.nextId - 2
    /\ \E i \in DOMAIN db.issues : db.issues[i].scopeId \in DOMAIN db.scopes

(***************************************************************************)
(* The operator: the payload the PipelineRun reconciler sends to the       *)
(* pipeline-failure webhook.                                               *)
(***************************************************************************)

\* strings.Contains(pr.Name, "prod") for the names of the model.
ContainsProd(name) == name \in {"deploy-prod"}

\* The PipelineRuns of the cluster: name, namespace and the labels
\* appstudio.openshift.io/service and pipelines.appstudio.openshift.io/type
\* ("" when absent).
PipelineRuns ==
    [name : PipelineRunNames, namespace : {"team-a"},
     service : {"", "release"}, type : {"", "build", "test"}]

\* determineSeverity
determineSeverity(pr) ==
    IF ContainsProd(pr.name) THEN "major"
    ELSE IF pr.service = "release" THEN "critical"
    ELSE IF pr.type \in {"build", "test"} THEN "medium"
    ELSE "major"

\* The payload of handlePipelineRunFailure, as the body of the webhook.
PipelineFailurePayload(pr) ==
    [pipelineName |-> pr.name, namespace |-> pr.namespace,
     severity |-> determineSeverity(pr),
     failureReason |-> "PipelineRun failed with unknown reason",
     runId |-> "run-1", logsUrl |-> ""]

\* TRUE when the enumerated columns of every stored issue hold a value of
\* their enumeration.
EnumsValid(S) ==
    \A i \in DOMAIN S.issues :
        /\ S.issues[i].severity \in validSeverities
        /\ S.issues[i].issueType \in validTypes
        /\ S.issues[i].state \in validStates

\* Bodies that carry a value outside the enumerations.
InvalidCreateIssueRequests ==
    {IssueRequest("X", "Y", "medium", "build", "", "team-a",
                  "component", "frontend", "", {}),
     IssueRequest("X", "Y", "major", "bug", "", "team-a",
                  "component", "frontend", "", {}),
     IssueRequest("X", "Y", "major", "build", "CLOSED", "team-a",
                  "component", "frontend", "", {})}

InvalidUpdateIssueRequests ==
    {Patch(Nil, Nil, "medium", Nil, Nil, NilTime, FALSE, {}),
     Patch(Nil, Nil, Nil, "bug", Nil, NilTime, FALSE, {}),
     Patch(Nil, Nil, Nil, Nil, "CLOSED", NilTime, FALSE, {})}

InvalidPipelineFailureRequests ==
    {PipelineFailurePayload(pr) : pr \in PipelineRuns} \ PipelineFailureRequests

(***************************************************************************)
(* C28: every stored issue has its severity, issue type and state in the   *)
(* enumerations, whichever of POST /issues, PUT /issues/:id and the        *)
(* pipeline-failure webhook stored it; a request that carries a value      *)
(* outside them is answered 400 and leaves the store as it was.            *)
(***************************************************************************)
C28_EnumsValidated ==
    /\ EnumsValid(db)
    /\ \A req \in InvalidCreateIssueRequests :
            LET h == CreateIssueHandler(db, req, now)
            IN  h.status = StatusBadRequest /\ h.db = db
    /\ \A req \in PipelineFailureRequests \cup InvalidPipelineFailureRequests :
            LET h == PipelineFailure(db, req, now)
            IN  /\ EnumsValid(h.db)
                /\ req.severity \notin validSeverities \cup {""}
                        => h.status = StatusBadRequest /\ h.db = db
    /\ \A id \in DOMAIN db.issues, req \in InvalidUpdateIssueRequests :
            LET h == UpdateIssueHandler(db, id, db.issues[id].namespace,
                                        req, now)
            IN  /\ EnumsValid(h.db)
                /\ h.status = StatusBadRequest
                /\ h.db = db

(***************************************************************************)
(* C29: fetching an issue by id returns it with its scope and its complete *)
(* current link set; an issue fetched right after its creation shows       *)
(* exactly the links it was created with.                                  *)
(***************************************************************************)
C29_GetIssueReturnsLinks ==
    /\ \A id \in DOMAIN db.issues :
        LET h == GetIssue(db, id, db.issues[id].namespace)
        IN  /\ h.status = StatusOK
            /\ h.issue.scope = ScopeOf(db, id)
            /\ h.issue.links = LinksOf(db, id)
    /\ \A req \in CreateIssueRequests :
        LET c == CreateIssueHandler(db, req, now)
        IN  c.status = StatusCreated
                => GetIssue(c.db, c.issue.id, req.namespace).issue.links
                        = req.links

(***************************************************************************)
(* The operator: the PipelineRun reconciler and the work queue that calls  *)
(* it.  A PipelineRun is absent, running, completed ("failed", "succeeded" *)
(* or "unknown" when no Succeeded condition says True or False) or         *)
(* deleted.                                                                *)
(***************************************************************************)

\* getPipelineRunStatus of a completed PipelineRun.
getPipelineRunStatus(phase) ==
    IF phase = "succeeded" THEN "succeeded"
    ELSE IF phase = "failed" THEN "failed"
    ELSE "unknown"

\* handlePipelineRunFailure that returns ctrl.Result{}, nil when the Kite
\* client fails.
handlePipelineRunFailure_NoRetry(key, kite) ==
    IF ~kite
    THEN ReconcileResult(key, 0, "", FALSE)
    ELSE ReconcileResult(key, 0, "", TRUE)

\* handlePipelineRunFailure: kite is TRUE when ReportPipelineFailure
\* returns nil.
handlePipelineRunFailure(key, kite) ==
    IF ~kite
    THEN ReconcileResult(key, RetryWaitPeriod,
            "failed to report pipeline failure from controller", FALSE)
    ELSE ReconcileResult(key, 0, "", TRUE)

\* handlePipelineRunSuccess
handlePipelineRunSuccess(key, kite) ==
    IF ~kite
    THEN ReconcileResult(key, RetryWaitPeriod,
            "failed to report pipeline success from controller", FALSE)
    ELSE ReconcileResult(key, 0, "", TRUE)

\* Reconcile of the request key, for the phase of its PipelineRun.
ReconcileRun(key, phase, kite) ==
    IF phase \in {"absent", "deleted"}
    THEN ReconcileResult(key, 0, "", FALSE)
    ELSE IF phase = "running"
    THEN ReconcileResult(key, 0, "", FALSE)
    ELSE IF getPipelineRunStatus(phase) = "failed"
    THEN handlePipelineRunFailure(key, kite)
    ELSE IF getPipelineRunStatus(phase) = "succeeded"
    THEN handlePipelineRunSuccess(key, kite)
    ELSE ReconcileResult(key, 0, "", FALSE)

\* The controller adds the request again when Reconcile returns an error
\* or a RequeueAfter.
Requeued(r) == r.err # "" \/ r.requeueAfter > 0

\* A PipelineRun is created; the watch adds its request to the queue.
CreateRun(k) ==
    /\ ctrl.runs[k] = "absent"
    /\ ctrl' = [ctrl EXCEPT !.runs[k] = "running", !.queue = @ \cup {k}]
    /\ UNCHANGED <<db, now, resp, served, procs, nc, conn>>

\* A PipelineRun completes.
CompleteRun(k) ==
    /\ ctrl.runs[k] = "running"
    /\ \E phase \in {"failed", "succeeded", "unknown"} :
        ctrl' = [ctrl EXCEPT !.runs[k] = phase, !.queue = @ \cup {k}]
    /\ UNCHANGED <<db, now, resp, served, procs, nc, conn>>

\* A PipelineRun is deleted.
DeleteRun(k) ==
    /\ ctrl.runs[k] \notin {"absent", "deleted"}
    /\ ctrl' = [ctrl EXCEPT !.runs[k] = "deleted", !.queue = @ \cup {k}]
    /\ UNCHANGED <<db, now, resp, served, procs, nc, conn>>

\* The Kite client starts to fail.
KiteFails ==
    /\ ctrl.kite
    /\ ctrl' = [ctrl EXCEPT !.kite = FALSE]
    /\ UNCHANGED <<db, now, resp, served, procs, nc, conn>>

\* The Kite client succeeds again.
KiteRecovers ==
    /\ ~ctrl.kite
    /\ ctrl' = [ctrl EXCEPT !.kite = TRUE]
    /\ UNCHANGED <<db, now, resp, served, procs, nc, conn>>

\* A worker takes the request k from the queue and calls Reconcile.
Reconcile(k) ==
    /\ k \in ctrl.queue
    /\ LET r == ReconcileRun(k, ctrl.runs[k], ctrl.kite)
       IN  ctrl' = [ctrl EXCEPT
                !.queue = @ \ {k},
                !.delayed = IF Requeued(r) THEN @ \cup {k} ELSE @,
                !.reported[k] = IF r.reported THEN ctrl.runs[k] ELSE @,
                !.failures = IF r.err # "" THEN @ \cup {k} ELSE @,
                !.result = r]
    /\ UNCHANGED <<db, now, resp, served, procs, nc, conn>>

\* The wait of a request that was added again is over.
Requeue(k) ==
    /\ k \in ctrl.delayed
    /\ ctrl' = [ctrl EXCEPT !.delayed = @ \ {k}, !.queue = @ \cup {k}]
    /\ UNCHANGED <<db, now, resp, served, procs, nc, conn>>

OperatorNext ==
    \/ \E k \in PipelineRunNames : CreateRun(k)
    \/ \E k \in PipelineRunNames : CompleteRun(k)
    \/ \E k \in PipelineRunNames : DeleteRun(k)
    \/ KiteFails
    \/ KiteRecovers
    \/ \E k \in PipelineRunNames : Reconcile(k)
    \/ \E k \in PipelineRunNames : Requeue(k)

\* The workers of the controller take every queued request, and a request
\* that waits is added to the queue when its wait is over.
OperatorSpec ==
    /\ Init
    /\ [][OperatorNext]_vars
    /\ \A k \in PipelineRunNames :
            WF_vars(Reconcile(k)) /\ WF_vars(Requeue(k))

(***************************************************************************)
(* C30: a failed report attempt makes Reconcile return an error with       *)
(* RequeueAfter = RetryWaitPeriod, a completed failed or succeeded         *)
(* PipelineRun leaves the queue only after a successful report, and, when  *)
(* the Kite client eventually succeeds for good, every completed failed or *)
(* succeeded PipelineRun is eventually reported.                           *)
(***************************************************************************)
C30_EveryCompletedRunReported ==
    /\ [](ctrl.result.err # ""
            => /\ ctrl.result.requeueAfter = RetryWaitPeriod
               /\ ~ctrl.result.reported)
    /\ [](\A k \in PipelineRunNames :
            (/\ ctrl.runs[k] \in {"failed", "succeeded"}
             /\ ctrl.reported[k] = "none")
                => k \in ctrl.queue \cup ctrl.delayed)
    /\ \A k \in PipelineRunNames :
            (<>[]ctrl.kite)
                => [](ctrl.runs[k] \in {"failed", "succeeded"}
                        => <>(ctrl.reported[k] \in {"failed", "succeeded"}))

(***************************************************************************)
(* C30, amended: as above, for every completed failed or succeeded         *)
(* PipelineRun that is not deleted before a report of it succeeds.         *)
(***************************************************************************)
C30_ReportedUnlessDeleted ==
    /\ [](ctrl.result.err # ""
            => /\ ctrl.result.requeueAfter = RetryWaitPeriod
               /\ ~ctrl.result.reported)
    /\ [](\A k \in PipelineRunNames :
            (/\ ctrl.runs[k] \in {"failed", "succeeded"}
             /\ ctrl.reported[k] = "none")
                => k \in ctrl.queue \cup ctrl.delayed)
    /\ \A k \in PipelineRunNames :
            (<>[]ctrl.kite)
                => [](ctrl.runs[k] \in {"failed", "succeeded"}
                        => <>(\/ ctrl.reported[k] = ctrl.runs[k]
                              \/ ctrl.runs[k] = "deleted"))

\* The failure of a PipelineRun has been reported after an attempt that
\* failed, and its request is no longer queued.
C30_Witness ==
    \E k \in PipelineRunNames :
        /\ ctrl.runs[k] = "failed"
        /\ k \in ctrl.failures
        /\ ctrl.reported[k] = "failed"
        /\ k \notin ctrl.queue \cup ctrl.delayed
        /\ ctrl.result = ReconcileResult(k, 0, "", TRUE)

(***************************************************************************)
(* Cancellation: the context each pending call of a request was given, and *)
(* what a client that disconnects does to it.                              *)
(***************************************************************************)

\* The seconds checkPodAccess lets the access review run.
ReviewTimeout == 10

\* The routes whose requests are followed.
CancelRoutes ==
    {"POST /issues", "POST /webhooks/pipeline-failure",
     "POST /webhooks/pipeline-success"}

\* The context checkPodAccess passes to the access review.
ReviewContext == "context.WithTimeout(context.Background())"

\* The context the handler of a route passes to the service: PipelineFailure
\* passes the gin.Context itself, the others c.Request.Context().
HandlerContext(route) ==
    IF route = "POST /webhooks/pipeline-failure"
    THEN "gin.Context"
    ELSE "c.Request.Context()"

\* TRUE when ctx.Done() is closed.  The Done channel of a gin.Context of an
\* engine made by gin.New() is nil.
Done(ctx, disconnected, waited) ==
    IF ctx = "c.Request.Context()" THEN disconnected
    ELSE IF ctx = ReviewContext THEN waited >= ReviewTimeout
    ELSE FALSE

\* TRUE when the call of connection p is pending.
Pending(p) == conn[p].call # "" /\ conn[p].outcome = ""

\* A request arrives: with a cluster client the middleware starts the
\* access review, without one the handler starts its store call.
Accept(p) ==
    /\ conn[p] = NoCall
    /\ \E route \in CancelRoutes :
        conn' = [conn EXCEPT ![p] =
            [NoCall EXCEPT
                !.route = route,
                !.call = IF nc.client THEN "review" ELSE "db",
                !.ctx = IF nc.client THEN ReviewContext
                        ELSE HandlerContext(route)]]
    /\ UNCHANGED <<db, now, resp, served, procs, nc, ctrl>>

\* The client disconnects while its request is in flight.
Disconnect(p) ==
    /\ Pending(p)
    /\ ~conn[p].disconnected
    /\ conn' = [conn EXCEPT ![p].disconnected = TRUE]
    /\ UNCHANGED <<db, now, resp, served, procs, nc, ctrl>>

\* ReviewTimeout seconds pass while the call is pending.
Wait(p) ==
    /\ Pending(p)
    /\ conn[p].waited < ReviewTimeout
    /\ conn' = [conn EXCEPT ![p].waited = ReviewTimeout]
    /\ UNCHANGED <<db, now, resp, served, procs, nc, ctrl>>

\* The pending call is aborted because its context is done.
Abort(p) ==
    /\ Pending(p)
    /\ Done(conn[p].ctx, conn[p].disconnected, conn[p].waited)
    /\ conn' = [conn EXCEPT ![p].outcome = "aborted"]
    /\ UNCHANGED <<db, now, resp, served, procs, nc, ctrl>>

\* The pending call returns: after the review the handler starts its store
\* call, after the store call the request is complete.
Return(p) ==
    /\ Pending(p)
    /\ conn' = [conn EXCEPT ![p] =
            IF conn[p].call = "review"
            THEN [@ EXCEPT !.call = "db",
                           !.ctx = HandlerContext(conn[p].route),
                           !.waited = 0]
            ELSE [@ EXCEPT !.outcome = "completed"]]
    /\ UNCHANGED <<db, now, resp, served, procs, nc, ctrl>>

\* The request is over.
Close(p) ==
    /\ conn[p].outcome # ""
    /\ conn' = [conn EXCEPT ![p] = NoCall]
    /\ UNCHANGED <<db, now, resp, served, procs, nc, ctrl>>

CancelNext ==
    \/ \E p \in Procs : Accept(p)
    \/ \E p \in Procs : Disconnect(p)
    \/ \E p \in Procs : Wait(p)
    \/ \E p \in Procs : Abort(p)
    \/ \E p \in Procs : Return(p)
    \/ \E p \in Procs : Close(p)

CancelSpec == AuthInit /\ [][CancelNext]_vars

(***************************************************************************)
(* C31: when the client has disconnected while its request is in flight,   *)
(* the context of the pending access review or store call is done, so the  *)
(* call is aborted instead of running to completion or to its own timeout. *)
(***************************************************************************)
C31_CancellationReachesPendingCalls ==
    \A p \in Procs :
        (Pending(p) /\ conn[p].disconnected)
            => Done(conn[p].ctx, conn[p].disconnected, conn[p].waited)

Touched(S, T) ==
    {i \in DOMAIN S.issues \cup DOMAIN T.issues :
        \/ i \notin DOMAIN S.issues
        \/ i \notin DOMAIN T.issues
        \/ S.issues[i] # T.issues[i]}

\* The namespace of issue i in the store that has it.
NamespaceIn(S, T, i) ==
    IF i \in DOMAIN T.issues THEN T.issues[i].namespace
    ELSE S.issues[i].namespace

(***************************************************************************)
(* C33: every issue created, updated or resolved by POST /issues, by the   *)
(* pipeline-failure webhook or by the pipeline-success webhook lies in the *)
(* namespace the access review of that request was performed for.          *)
(***************************************************************************)
C33_ActsOnReviewedNamespace ==
    /\ (/\ nc.reviewed
         /\ resp.op \in {"POST /issues", "POST /webhooks/pipeline-failure"}
         /\ resp.status = StatusCreated)
        => db.issues[resp.id].namespace = nc.namespace
    /\ \A query \in Namespaces :
        \A h \in {CreateIssueHandler(db, req, now) :
                        req \in RoutedCreateIssueRequests}
                \cup {PipelineFailure(db, req, now) :
                        req \in RoutedPipelineFailureRequests}
                \cup {PipelineSuccess(db, req, now, "none") :
                        req \in RoutedPipelineSuccessRequests} :
            LET r == Serve(TRUE, query, "POST", "allowed", db, h)
            IN  \A i \in Touched(db, r.db) :
                    NamespaceIn(db, r.db, i) = query

(***************************************************************************)
(* C34: a relate or unrelate request whose access review was performed for *)
(* the namespace n creates or removes no relationship that involves an     *)
(* issue of another namespace.                                             *)
(***************************************************************************)
C34_RelateWithinReviewedNamespace ==
    \A query \in Namespaces, a \in DOMAIN db.issues, b \in DOMAIN db.issues :
        \A h \in {AddRelatedIssueHandler(db, a, b),
                   RemoveRelatedIssueHandler(db, a, b)} :
            LET r == Serve(TRUE, query, "POST", "allowed", db, h)
            IN  r.db.related # db.related
                    => /\ db.issues[a].namespace = query
                       /\ db.issues[b].namespace = query

(***************************************************************************)
(* C35: create_or_update of a candidate that has a duplicate changes only  *)
(* the title, description, severity, issue type, links and updatedAt of    *)
(* the existing issue; its state, resolvedAt, detectedAt, namespace and    *)
(* scope are unchanged, so the issue is still active afterwards.           *)
(***************************************************************************)
C35_DuplicateUpdateFrame ==
    \A req \in ValidCreateIssueRequests, t \in now..MaxTime :
        CheckDuplicate(db, req) # NoId
        => LET id == CheckDuplicate(db, req)
               r == CreateOrUpdateIssue(db, req, t)
               old == db.issues[id]
               new == r.db.issues[id]
           IN  /\ r.err = ""
               /\ r.issue.id = id
               /\ DOMAIN r.db.issues = DOMAIN db.issues
               /\ new.state = old.state
               /\ new.state = IssueStateActive
               /\ new.resolvedAt = old.resolvedAt
               /\ new.detectedAt = old.detectedAt
               /\ new.namespace = old.namespace
               /\ new.scopeId = old.scopeId
               /\ r.db.scopes = db.scopes
               /\ r.db.related = db.related
               /\ \A j \in DOMAIN db.issues \ {id} :
                    r.db.issues[j] = db.issues[j]

(***************************************************************************)
(* C36: a create_or_update for a key whose only existing issues are        *)
(* resolved creates a new active issue with a new id and leaves every      *)
(* resolved issue unchanged: resolved issues are never reactivated or      *)
(* modified by failure events.                                             *)
(***************************************************************************)
ResolvedOnlyKey(S, req) ==
    LET K == {i \in DOMAIN S.issues : KeyOf(S, i) = CandidateKey(req)}
    IN  K # {} /\ \A i \in K : S.issues[i].state = IssueStateResolved

C36_ResolvedKeyCreatesNewIssue ==
    \A req \in ValidCreateIssueRequests, t \in now..MaxTime :
        ResolvedOnlyKey(db, req)
        => LET r == CreateOrUpdateIssue(db, req, t)
           IN  /\ r.err = ""
               /\ r.issue.id = db.nextId
               /\ r.issue.id \notin DOMAIN db.issues
               /\ r.db.issues[r.issue.id].state = IssueStateActive
               /\ \A i \in DOMAIN db.issues :
                    db.issues[i].state = IssueStateResolved
                    => /\ i \in DOMAIN r.db.issues
                       /\ r.db.issues[i] = db.issues[i]
                       /\ ScopeOf(r.db, i) = ScopeOf(db, i)

(***************************************************************************)
(* The server handling pipeline-success webhooks in parallel with requests *)
(* on single issues: the two statements of ResolveByScope are two steps of *)
(* the connection p.                                                       *)
(***************************************************************************)

\* POST /webhooks/pipeline-success is bound.
ReceiveSuccess(p) ==
    \E req \in PipelineSuccessRequests :
        /\ procs[p].pc = "idle"
        /\ served < MaxRequests
        /\ req.pipelineName # "" /\ req.namespace # ""
        /\ served' = served + 1
        /\ procs' = [procs EXCEPT ![p] =
                [Idle EXCEPT !.pc = "ResolveByScope.Pluck",
                             !.op = "POST /webhooks/pipeline-success",
                             !.req = [NoRequest EXCEPT
                                 !.namespace = req.namespace,
                                 !.scope.resourceType = "pipelinerun",
                                 !.scope.resourceName = req.pipelineName]]]
        /\ UNCHANGED <<db, now, resp>>
        /\ UNCHANGED <<nc, ctrl, conn>>

\* ResolveByScope: time.Now() and the query plucking the ids of the active
\* issues of the scope; no id ends the call with count 0.
StepPluck(p) ==
    \E t \in now..MaxTime :
        LET ids == ScopeIds(db, procs[p].req.scope.resourceType,
                            procs[p].req.scope.resourceName,
                            procs[p].req.namespace)
        IN  /\ procs[p].pc = "ResolveByScope.Pluck"
            /\ now' = t
            /\ procs' = [procs EXCEPT ![p] =
                    [@ EXCEPT !.ids = ids, !.at = t, !.count = 0,
                              !.pc = IF ids = {}
                                     THEN "PipelineSuccess.JSON"
                                     ELSE "ResolveByScope.Updates"]]
            /\ UNCHANGED <<db, resp, served>>
            /\ UNCHANGED <<nc, ctrl, conn>>

\* ResolveByScope: the UPDATE of the rows whose id is in the plucked ids;
\* the count is the number of rows it affected.
StepResolveRows(p) ==
    LET rows == procs[p].ids \cap DOMAIN db.issues
    IN  /\ procs[p].pc = "ResolveByScope.Updates"
        /\ db' = ResolveRows(db, rows, procs[p].at)
        /\ procs' = [procs EXCEPT ![p] =
                [@ EXCEPT !.count = Cardinality(rows),
                          !.pc = "PipelineSuccess.JSON"]]
        /\ UNCHANGED <<now, resp, served>>
        /\ UNCHANGED <<nc, ctrl, conn>>

\* PipelineSuccess answers 200 with the count.
RespondSuccess(p) ==
    /\ procs[p].pc = "PipelineSuccess.JSON"
    /\ resp' = [op |-> procs[p].op, status |-> StatusOK, id |-> NoId,
                count |-> procs[p].count, storeErr |-> ""]
    /\ procs' = [procs EXCEPT ![p] = Idle]
    /\ UNCHANGED <<db, now, served>>
    /\ UNCHANGED <<nc, ctrl, conn>>

ResolveNext ==
    \E p \in Procs :
        \/ ConnPostIssue(p)
        \/ ReceiveSuccess(p)
        \/ StepPluck(p)
        \/ StepResolveRows(p)
        \/ RespondSuccess(p)
        \/ ReceiveById(p)
        \/ StepDeleteFind(p)
        \/ StepDeleteRelations(p)
        \/ StepDeleteCommit(p)
        \/ StepFindForUpdate(p)
        \/ StepUpdateById(p)

ResolveSpec == Init /\ [][ResolveNext]_vars

(***************************************************************************)
(* C37: when two resolve_by_scope calls for the same scope run             *)
(* concurrently, each issue that was active is counted by exactly one      *)
(* call: the counts of two calls that have both finished and not yet       *)
(* answered add up to the number of issues they resolved.                  *)
(***************************************************************************)
C37_EachIssueCountedOnce ==
    \A p \in Procs, q \in Procs :
        (/\ p # q
         /\ procs[p].pc = "PipelineSuccess.JSON"
         /\ procs[q].pc = "PipelineSuccess.JSON")
        => procs[p].count + procs[q].count
             = Cardinality(procs[p].ids \cup procs[q].ids)

\* C37, second part: the UPDATE of a resolve_by_scope call leaves the
\* resolvedAt of an issue that is already resolved as it was.
C37_ResolvedAtKept ==
    [][\A p \in Procs :
        (procs[p].pc = "ResolveByScope.Updates" /\ procs'[p] # procs[p])
        => \A i \in DOMAIN db.issues :
             db.issues[i].state = IssueStateResolved
             => db'.issues[i].resolvedAt = db.issues[i].resolvedAt]_vars

(***************************************************************************)
(* The server handling PUT /issues/:id with links and DELETE /issues/:id   *)
(* in parallel: every statement of the transactions of Update and Delete   *)
(* is one step of the connection p.  db is the committed database; the     *)
(* rows a transaction has deleted or inserted are kept with the connection *)
(* until it commits, and a statement that needs a row another transaction  *)
(* has written waits for that transaction.                                 *)
(***************************************************************************)

RunbookLink == [title |-> "Runbook", url |-> "https://konflux.test/runbook"]

\* Bodies of PUT /issues/:id of the parallel server: no links field, an
\* empty list, or one link.
LinkUpdates ==
    {Patch(Nil, Nil, Nil, Nil, Nil, NilTime, FALSE, {}),
     Patch(Nil, Nil, Nil, Nil, Nil, NilTime, TRUE, {}),
     Patch(Nil, Nil, Nil, Nil, Nil, NilTime, TRUE, {DocLink}),
     Patch(Nil, Nil, Nil, Nil, Nil, NilTime, TRUE, {RunbookLink})}

\* The UPDATE of the issue row locks the row until the transaction ends:
\* TRUE when a connection other than p holds the lock of the row id.
RowLocked_Never(P, id, p) == FALSE

RowLocked(P, id, p) ==
    \E q \in DOMAIN P \ {p} : P[q].locked /\ P[q].id = id

\* TRUE when one of the link rows is deleted by the open transaction of a
\* connection other than p.
LinksLocked(P, rows, p) ==
    \E q \in DOMAIN P \ {p} : P[q].deleted \cap rows # {}

\* The INSERT of the link rows of issue id.  Link_issueId_fkey rejects a
\* row whose issue does not exist.
InsertLinks_NoForeignKey(S, id, links) ==
    Result(S, NoIssue, Cardinality(LinkRows(id, links)), "")

InsertLinks(S, id, links) ==
    IF links # {} /\ id \notin DOMAIN S.issues
    THEN Result(S, NoIssue, 0, "failed to create link")
    ELSE Result(S, NoIssue, Cardinality(LinkRows(id, links)), "")

\* The commit of the transaction of Update: the row, when the UPDATE found
\* it, and the link rows deleted and inserted.
CommitUpdate(S, id, found, existingIssue, req, t, deleted, inserted) ==
    [S EXCEPT
        !.issues = IF found /\ id \in DOMAIN @
                   THEN [@ EXCEPT ![id] =
                           UpdatedRow(@, Updates(existingIssue, req, t))]
                   ELSE @,
        !.links = (@ \ deleted) \cup inserted]

\* The end of the transaction of Delete, from the DELETE of the issue row.
\* Link_issueId_fkey and the two keys of RelatedIssue reject the DELETE
\* while a row the transaction has not deleted refers to the issue; the
\* error of a statement, or the database ending the transaction (aborted),
\* rolls the transaction back.
DeleteCommit_Partial(S, id, scopeId, seen, deleted, aborted) ==
    IF aborted
    THEN Result([S EXCEPT !.links = @ \ deleted],
                NoIssue, 0, "deadlock detected")
    ELSE IF id \in DOMAIN S.issues
            /\ \/ {l \in S.links : l.issueId = id} \ deleted # {}
               \/ \E e \in IncidentTo(S, id) :
                     e \notin DOMAIN seen \/ S.related[e] > seen[e]
    THEN Result([S EXCEPT !.links = @ \ deleted],
                NoIssue, 0, "failed to delete issue")
    ELSE Result(DeleteTransaction([S EXCEPT !.links = @ \ deleted],
                                  id, scopeId), NoIssue, 0, "")

DeleteCommit(S, id, scopeId, seen, deleted, aborted) ==
    IF aborted
    THEN Result(S, NoIssue, 0, "deadlock detected")
    ELSE IF id \in DOMAIN S.issues
            /\ \/ {l \in S.links : l.issueId = id} \ deleted # {}
               \/ \E e \in IncidentTo(S, id) :
                     e \notin DOMAIN seen \/ S.related[e] > seen[e]
    THEN Result(S, NoIssue, 0, "failed to delete issue")
    ELSE IF id \in DOMAIN S.issues
    THEN Result(DeleteTransaction(S, id, scopeId), NoIssue, 0, "")
    ELSE Result([S EXCEPT !.links = @ \ deleted], NoIssue, 0, "")

\* PUT /issues/:id and DELETE /issues/:id up to the FindIssueByID of the
\* handler: 404 when the issue is nil, 403 when its namespace is not the
\* namespace of the query.
ReceiveLinks(p) ==
    \E op \in {"DELETE /issues/:id", "PUT /issues/:id"},
       id \in IssueIds, namespace \in Namespaces, req \in LinkUpdates :
        /\ procs[p].pc = "idle"
        /\ served < MaxRequests
        /\ op = "DELETE /issues/:id" => req = Patch(Nil, Nil, Nil, Nil, Nil, NilTime, FALSE, {})
        /\ served' = served + 1
        /\ IF FindByID(db, id) = NoIssue
           THEN Reply(p, op, StatusNotFound, NoId, "")
           ELSE IF FindByID(db, id).namespace # namespace
           THEN Reply(p, op, StatusForbidden, NoId, "")
           ELSE /\ procs' = [procs EXCEPT ![p] =
                        [Idle EXCEPT !.pc = IF op = "DELETE /issues/:id"
                                            THEN "Delete.FindByID"
                                            ELSE "Update.FindByID",
                                     !.op = op, !.id = id, !.req = req]]
                /\ UNCHANGED resp
        /\ UNCHANGED <<db, now>>
        /\ UNCHANGED <<nc, ctrl, conn>>

\* Update: the UPDATE of the issue row, which waits for the lock of the row
\* and changes nothing when the row is gone.
StepUpdates(p) ==
    \E t \in now..MaxTime :
        /\ procs[p].pc = "Update.Updates"
        /\ ~RowLocked(procs, procs[p].id, p)
        /\ now' = t
        /\ procs' = [procs EXCEPT ![p] =
                [@ EXCEPT !.locked = procs[p].id \in DOMAIN db.issues,
                          !.at = t,
                          !.pc = IF procs[p].req.hasLinks
                                 THEN "Update.DeleteLinks"
                                 ELSE "Update.Commit"]]
        /\ UNCHANGED <<db, resp, served>>
        /\ UNCHANGED <<nc, ctrl, conn>>

\* Update: the DELETE of the old links, which waits for the transaction
\* that has deleted one of them.
StepDeleteLinks(p) ==
    LET rows == {l \in db.links : l.issueId = procs[p].id}
    IN  /\ procs[p].pc = "Update.DeleteLinks"
        /\ ~LinksLocked(procs, rows, p)
        /\ procs' = [procs EXCEPT ![p] =
                [@ EXCEPT !.deleted = rows, !.pc = "Update.CreateLinks"]]
        /\ UNCHANGED <<db, now, resp, served>>
        /\ UNCHANGED <<nc, ctrl, conn>>

\* Update: the INSERTs of the new links; an error rolls the transaction
\* back and is answered 500.
StepCreateLinks(p) ==
    /\ procs[p].pc = "Update.CreateLinks"
    /\ IF InsertLinks(db, procs[p].id, procs[p].req.links).err # ""
       THEN Reply(p, procs[p].op, StatusInternalServerError, NoId,
                  InsertLinks(db, procs[p].id, procs[p].req.links).err)
       ELSE /\ procs' = [procs EXCEPT ![p] =
                    [@ EXCEPT !.inserted = LinkRows(procs[p].id,
                                                    procs[p].req.links),
                              !.pc = "Update.Commit"]]
            /\ UNCHANGED resp
    /\ UNCHANGED <<db, now, served>>
    /\ UNCHANGED <<nc, ctrl, conn>>

\* Update: the commit and the FindByID that reloads the issue, answered 200.
StepCommit(p) ==
    /\ procs[p].pc = "Update.Commit"
    /\ db' = CommitUpdate(db, procs[p].id, procs[p].locked,
                          procs[p].existing, procs[p].req, procs[p].at,
                          procs[p].deleted, procs[p].inserted)
    /\ Reply(p, procs[p].op, StatusOK, FindByID(db, procs[p].id).id, "")
    /\ UNCHANGED <<now, served>>
    /\ UNCHANGED <<nc, ctrl, conn>>

\* Delete: the DELETE of the relationships and the DELETE of the links,
\* which waits for the transaction that has deleted one of them.
StepDeleteRows(p) ==
    LET rows == {l \in db.links : l.issueId = procs[p].id}
    IN  /\ procs[p].pc = "Delete.Transaction"
        /\ ~LinksLocked(procs, rows, p)
        /\ procs' = [procs EXCEPT ![p] =
                [@ EXCEPT !.seen = [e \in IncidentTo(db, procs[p].id)
                                        |-> db.related[e]],
                          !.deleted = rows,
                          !.pc = "Delete.Issue"]]
        /\ UNCHANGED <<db, now, resp, served>>
        /\ UNCHANGED <<nc, ctrl, conn>>

\* Delete: the DELETE of the issue row, which waits for the lock of the
\* row, the DELETE of the scope and the commit: 204, or 500 when the
\* transaction is rolled back.
StepDeleteIssue(p) ==
    LET r == DeleteCommit(db, procs[p].id, procs[p].existing.scopeId,
                          procs[p].seen, procs[p].deleted, FALSE)
    IN  /\ procs[p].pc = "Delete.Issue"
        /\ ~RowLocked(procs, procs[p].id, p)
        /\ db' = r.db
        /\ IF r.err # ""
           THEN Reply(p, procs[p].op, StatusInternalServerError, NoId, r.err)
           ELSE Reply(p, procs[p].op, StatusNoContent, NoId, "")
        /\ UNCHANGED <<now, served>>
        /\ UNCHANGED <<nc, ctrl, conn>>

\* Two transactions wait for each other: the database ends one of them
\* with an error, which rolls it back and is answered 500.
StepDeadlock(p) ==
    \E q \in Procs \ {p} :
        /\ procs[p].pc = "Update.DeleteLinks"
        /\ procs[q].pc = "Delete.Issue"
        /\ procs[p].locked /\ procs[p].id = procs[q].id
        /\ procs[q].deleted \cap {l \in db.links : l.issueId = procs[p].id} # {}
        /\ \/ /\ Reply(p, procs[p].op, StatusInternalServerError, NoId,
                       "deadlock detected")
              /\ UNCHANGED db
           \/ LET r == DeleteCommit(db, procs[q].id,
                                    procs[q].existing.scopeId,
                                    procs[q].seen, procs[q].deleted, TRUE)
              IN  /\ db' = r.db
                  /\ Reply(q, procs[q].op, StatusInternalServerError, NoId,
                           r.err)
        /\ UNCHANGED <<now, served>>
        /\ UNCHANGED <<nc, ctrl, conn>>

LinkNext ==
    \E p \in Procs :
        \/ ConnPostIssue(p)
        \/ ReceiveLinks(p)
        \/ StepFindForUpdate(p)
        \/ StepUpdates(p)
        \/ StepDeleteLinks(p)
        \/ StepCreateLinks(p)
        \/ StepCommit(p)
        \/ StepDeleteFind(p)
        \/ StepDeleteRows(p)
        \/ StepDeleteIssue(p)
        \/ StepDeadlock(p)

LinkSpec == Init /\ [][LinkNext]_vars

(***************************************************************************)
(* C38: in every reachable store state, under any interleaving of update,  *)
(* create-or-update and delete requests, every link belongs to an existing *)
(* issue.                                                                  *)
(***************************************************************************)
C38_NoOrphanLink ==
    \A l \in db.links : l.issueId \in DOMAIN db.issues

\* An update carrying links has lost against a delete of its issue: the
\* issue is gone and the INSERT of the links was rejected.
C38_Witness ==
    /\ resp.op = "PUT /issues/:id"
    /\ resp.status = StatusInternalServerError
    /\ resp.storeErr = "failed to create link"
    /\ db.nextId > 1
    /\ db.issues = <<>>

(***************************************************************************)
(* C39: when two updates carrying link sets L1 and L2 for the same issue   *)
(* run concurrently, the issue's final link set is exactly L1 or exactly   *)
(* L2, never a union or mixture of both: every step that changes the link  *)
(* set of an issue is the commit of an update carrying links, and leaves   *)
(* the issue with exactly the links of that update.                        *)
(***************************************************************************)
C39_LinkSetOfOneUpdate ==
    [][\A i \in DOMAIN db.issues \cap DOMAIN db'.issues :
          LinksOf(db', i) # LinksOf(db, i)
          => \E p \in Procs :
                /\ procs[p].pc = "Update.Commit"
                /\ procs'[p] = Idle
                /\ procs[p].id = i
                /\ procs[p].req.hasLinks
                /\ LinksOf(db', i) = procs[p].req.links]_vars

\* Two updates of one issue with different link sets are in flight: one
\* has inserted its links and is about to commit, the other waits for the
\* row.
C39_Witness ==
    \E p \in Procs, q \in Procs :
        /\ p # q
        /\ procs[p].pc = "Update.Commit"
        /\ procs[p].locked
        /\ procs[p].inserted = LinkRows(procs[p].id, {DocLink})
        /\ procs[q].pc = "Update.Updates"
        /\ procs[q].id = procs[p].id
        /\ procs[q].req.hasLinks
        /\ procs[q].req.links = {RunbookLink}
        /\ RowLocked(procs, procs[q].id, q)

(***************************************************************************)
(* C40: delete is all-or-nothing: if any step of the delete sequence       *)
(* fails, the issue, its scope, its links and its relationships all remain *)
(* exactly as they were before the call.  Every step of a DELETE           *)
(* /issues/:id other than the one answered 204 leaves the database as it   *)
(* was.                                                                    *)
(***************************************************************************)
C40_DeleteAllOrNothing ==
    [][\A p \in Procs :
          (/\ procs[p].op = "DELETE /issues/:id"
           /\ procs'[p] # procs[p]
           /\ ~(procs'[p] = Idle /\ resp'.status = StatusNoContent))
          => db' = db]_vars

\* A delete that had deleted the links of its issue was ended by the
\* database and answered 500, and the issue has its links.
C40_Witness ==
    /\ resp.op = "DELETE /issues/:id"
    /\ resp.status = StatusInternalServerError
    /\ resp.storeErr = "deadlock detected"
    /\ \E i \in DOMAIN db.issues : LinksOf(db, i) # {}

====
